---- MODULE Spec2Model ----
(***************************************************************************)
(* shrun: a YAML driven shell command runner.                              *)
(*                                                                         *)
(* The module models one invocation of runner.run_commands                 *)
(* (src/shrun/runner.py): the scheduling loop of the main thread, one      *)
(* worker thread per started Job (src/shrun/command.py, Job.run and        *)
(* Runner._run), the child processes the workers supervise, and the        *)
(* teardown in Runner.kill_all.  Threads interleave at every access to     *)
(* state they share (name_result, predicates, _results, _procs, _colors,   *)
(* _dead, the condition variable).                                         *)
(*                                                                         *)
(* Job ids are the 1-based positions of the commands of the document; the  *)
(* code counts them from 0 (itertools.count()).                            *)
(***************************************************************************)
EXTENDS Integers, Sequences, FiniteSets, TLC

\* ------------------------------------------------------------------ bounds
\* longest document of the scheduling family
MaxCmds == 2
\* longest document in which the user interrupt, the post phase and the
\* --timeout deadline are explored
MaxInterruptCmds == 1
\* largest `retries' feature value
MaxRetries == 1
\* largest `timeout' feature value (seconds)
MaxTimeout == 1
\* the clock stops advancing here
MaxTime == 2
\* most jobs that hold or ask for a colour together
MaxLeases == 7
\* most items of a series
MaxItems == 2
\* most elements (characters and series sites) of a command string
MaxLength == 2

\* ------------------------------------------------------- python constants
None == "None"
True == "True"
False == "False"
PyBool(b) == IF b THEN True ELSE False

\* a timeout that is None (timeouts are numbers of seconds otherwise)
NoTimeout == 0 - 1
\* the `timeout' feature is not present in the command's feature mapping
Absent == 0 - 2

COLORS == <<"yellow", "blue", "red", "green", "magenta", "cyan">>

\* ---------------------------------------------------------------- helpers
Range(s) == {s[i] : i \in 1..Len(s)}

SeqsUpTo(S, n) == UNION {[1..k -> S] : k \in 1..n}

\* ------------------------------------------------------------- documents
\* A command entry of the document, as parser.Command keeps it: the features
\* of command.Job.  Plain is a command without features.  `valid' is FALSE
\* for an entry on which Command.__new__ asserts (unknown keyword, command
\* not a string).
Plain ==
    [name |-> "", background |-> FALSE, depends_on |-> <<>>, if |-> <<>>,
     unless |-> <<>>, set |-> <<>>, retries |-> 0, timeout |-> Absent,
     valid |-> TRUE]

Named(n) == [Plain EXCEPT !.name = n]
Background == [Plain EXCEPT !.background = TRUE]
DependsOn(c, names) == [c EXCEPT !.depends_on = names]
Setter(preds) == [Plain EXCEPT !.set = preds]
Invalid == [Plain EXCEPT !.valid = FALSE]

\* commands of the scheduling family: names, background, dependencies, set
SchedCommands ==
    { Plain, Named("a"), Named("b"), Background,
      DependsOn(Background, <<"a">>), DependsOn(Plain, <<"a", "b">>),
      Setter(<<"p">>), Invalid }

\* commands of the retry family: retries, timeout, background
RetryCommands ==
    { [Plain EXCEPT !.background = bg, !.retries = r, !.timeout = t] :
        bg \in BOOLEAN, r \in 0..MaxRetries, t \in {Absent} \cup 0..MaxTimeout }

\* longer documents, the scenarios of tests/test_runner.py:
\* test_command_in_parallel, a job that depends on two names, the same job
\* placed before one of the commands it names, test_predicates, a named
\* setter and a job that depends on it and tests its predicate, a named job
\* with `unless' and `set' after a setter and a job that depends on it
ScenarioDocuments ==
    { <<Named("a"), DependsOn(Background, <<"a">>), Plain>>,
      <<Named("a"), Named("b"), DependsOn(Plain, <<"a", "b">>)>>,
      <<Named("b"), DependsOn(Plain, <<"a", "b">>), Named("a")>>,
      <<Setter(<<"p">>), [Plain EXCEPT !.unless = <<"p">>],
        [Plain EXCEPT !.if = <<"p">>]>>,
      <<[Named("a") EXCEPT !.set = <<"p">>],
        [DependsOn(Plain, <<"a">>) EXCEPT !.if = <<"p">>]>>,
      <<Setter(<<"p">>), [Named("a") EXCEPT !.unless = <<"p">>, !.set = <<"q">>],
        DependsOn(Plain, <<"a">>)>> }

\* documents with a job that waits: a named job and a background job that
\* depends on it; a chain of two dependencies
DeadlineDocuments ==
    { <<Named("a"), DependsOn(Background, <<"a">>)>>,
      <<Named("a"), DependsOn(Named("b"), <<"a">>), DependsOn(Plain, <<"b">>)>> }

SchedDocuments ==
    SeqsUpTo(SchedCommands, MaxCmds) \cup ScenarioDocuments \cup DeadlineDocuments

\* the retry family: one command
RetryDocuments == {<<c>> : c \in RetryCommands}

\* the documents main() is followed through a post phase and a deadline with
ProgramDocuments == SeqsUpTo(SchedCommands, MaxInterruptCmds)

\* main(): the `post' list of the file, for a `main' list d
PostDocuments(d) == IF d \in ProgramDocuments THEN {<<>>, <<Plain>>} ELSE {<<>>}

\* main(): --timeout is given (the timer is armed) or not, for a `main' list d
Timers(d) ==
    IF d \in ProgramDocuments \cup DeadlineDocuments
      THEN {"unset", "armed"} ELSE {"unset"}

\* the arguments of run_commands: the document and output_timeout
Runs ==
    (SchedDocuments \X {NoTimeout})
      \cup (RetryDocuments \X ({NoTimeout} \cup 0..MaxTimeout))

\* ------------------------------------------------------------------ parser
\* A string is a sequence of elements: a character, or one `{{...}}' site
\* as SERIES_PARSER.scanString finds it.  The items of a series are one
\* character long, so a substitution puts one character where the site was.

\* one character of a string
Lit(c) == [label |-> "", items |-> <<>>, ch |-> c]

\* _Series.__init__ on the text of a site: `{{label:i1,i2}}' or `{{i1,i2}}'
Series(l, its) == [label |-> l, items |-> its, ch |-> ""]

\* SERIES_PARSER.scanString: the positions of the sites of a string
scanString(value) == {k \in 1..Len(value) : value[k].items # <<>>}

\* _Series.labeled
labeled(s) == s.label # ""

\* _Series.label: `self._label or ','.join(self.items)'.  A label holds no
\* comma, so it can only equal the join of a single item.
label(s) == IF labeled(s) THEN <<s.label>> ELSE s.items

\* _Series.__eq__
SeriesEq(s, t) == label(s) = label(t)

\* KEYWORDS
KEYWORDS == {"background", "depends_on", "if", "name", "set", "timeout", "unless",
             "retries", "interval"}

\* str.rstrip('\n')
RECURSIVE rstrip(_)
rstrip(value) ==
    IF value # <<>> /\ value[Len(value)] = Lit("\n")
      THEN rstrip(SubSeq(value, 1, Len(value) - 1))
      ELSE value

\* a feature value: a string (str) or a list of one string
StrValue(t) == [str |-> TRUE, text |-> t]
ListValue(t) == [str |-> FALSE, text |-> t]

\* `features or {}' of a command without features
NoFeatures == [key \in {} |-> StrValue(<<>>)]

\* Command.__new__: an assertion fails (an unknown feature key)
CommandRaises(features) == \E key \in DOMAIN features : key \notin KEYWORDS

\* Command.__new__: the tuple built
Command(value, features) == [command |-> rstrip(value), features |-> features]

\* the 1-1 assertion that fails only for a site with fewer items than the
\* target
FewerItemsRaises(value, target) ==
    \E k \in scanString(value) :
        /\ SeriesEq(value[k], target)
        /\ labeled(value[k])
        /\ Len(value[k].items) < Len(target.items)

\* _expand_value on a string: the 1-1 assertion fails for some site
ExpandStringRaises(value, target) ==
    \E k \in scanString(value) :
        /\ SeriesEq(value[k], target)
        /\ labeled(value[k])
        /\ Len(value[k].items) # Len(target.items)

\* _expand_value that substitutes the first site equal to the target only
ExpandFirstOnly(value, target, index) ==
    [k \in 1..Len(value) |->
        IF /\ k \in scanString(value) /\ SeriesEq(value[k], target)
           /\ \A m \in scanString(value) : SeriesEq(value[m], target) => k <= m
          THEN Lit((IF labeled(value[k]) THEN value[k].items ELSE target.items)[index])
          ELSE value[k]]

\* _expand_value on a string: every site equal to the target becomes the item
\* at `index', of its own items when it is labeled, else of the target's
ExpandString(value, target, index) ==
    [k \in 1..Len(value) |->
        IF k \in scanString(value) /\ SeriesEq(value[k], target)
          THEN Lit((IF labeled(value[k]) THEN value[k].items ELSE target.items)[index])
          ELSE value[k]]

\* _expand_value that returns a feature mapping as it is
KeepFeatures(features, target, index) == features

\* _expand_value on a feature mapping: strings are expanded, other values
\* are returned as they are
expand_value(features, target, index) ==
    [key \in DOMAIN features |->
        IF features[key].str
          THEN StrValue(ExpandString(features[key].text, target, index))
          ELSE features[key]]

\* Command.expand_series raises
ExpandSeriesRaises(c, series) ==
    \/ ExpandStringRaises(c.command, series)
    \/ \E key \in DOMAIN c.features :
          c.features[key].str /\ ExpandStringRaises(c.features[key].text, series)

\* Command.expand_series
expand_series(c, series, index) ==
    Command(ExpandString(c.command, series, index),
            expand_value(c.features, series, index))

\* the lists of a list of lists, one after the other
RECURSIVE Chain(_)
Chain(lists) == IF lists = <<>> THEN <<>> ELSE Head(lists) \o Chain(Tail(lists))

\* the last site of a string, taken where the first is meant
LastSite(value) ==
    value[CHOOSE k \in scanString(value) : \A m \in scanString(value) : k >= m]

\* the first site of a string
FirstSite(value) ==
    value[CHOOSE k \in scanString(value) : \A m \in scanString(value) : k <= m]

\* Command.generate_all_commands raises
RECURSIVE GenerateRaises(_)
GenerateRaises(c) ==
    IF scanString(c.command) = {} THEN FALSE
    ELSE \/ ExpandSeriesRaises(c, FirstSite(c.command))
         \/ \E index \in 1..Len(FirstSite(c.command).items) :
               GenerateRaises(expand_series(c, FirstSite(c.command), index))

\* generate_all_commands that yields nothing for a command without series
YieldsNothing(c) == <<>>

\* Command.generate_all_commands, as the list of the commands it yields
RECURSIVE generate_all_commands(_)
generate_all_commands(c) ==
    IF scanString(c.command) = {} THEN <<c>>
    ELSE Chain([index \in 1..Len(FirstSite(c.command).items) |->
                   generate_all_commands(expand_series(c, FirstSite(c.command), index))])

\* the item lists of the series: A / A,B / ..., 1 / 1,2 / ..., and the single
\* item k, which read as a label is the label of the labeled series
Letters == <<"A", "B", "C">>
Digits == <<"1", "2", "3">>
ItemLists ==
    {SubSeq(Letters, 1, n) : n \in 1..MaxItems}
      \cup {SubSeq(Digits, 1, n) : n \in 1..MaxItems}
      \cup {<<"k">>}

\* the series: unlabeled, or labeled k
AllSeries ==
    {Series("", its) : its \in ItemLists}
      \cup {Series("k", its) : its \in ItemLists \ {<<"k">>}}

\* the elements and the strings of the commands
Elements == AllSeries \cup {Lit("x"), Lit("\n")}
Strings == {<<>>} \cup SeqsUpTo(Elements, MaxLength)
ShortStrings == {<<e>> : e \in Elements}

\* the feature mappings: none, a string with a series, a list with a series,
\* an unknown key
FeatureMappings ==
    {NoFeatures}
      \cup {[key \in {"name"} |-> StrValue(<<e>>)] : e \in AllSeries}
      \cup {[key \in {"depends_on"} |-> ListValue(<<Series("", <<"A">>)>>)]}
      \cup {[key \in {"backgroundish"} |-> StrValue(<<>>)]}

\* an entry of a sequence: a command (a string, or a one-key mapping from the
\* string to its features), the mapping `foreach: series', a nested sequence
CommandItem(value, features) ==
    [kind |-> "command", value |-> value, features |-> features,
     series |-> Series("", <<>>), seq |-> <<>>]
ForeachItem(series) ==
    [kind |-> "foreach", value |-> <<>>, features |-> NoFeatures,
     series |-> series, seq |-> <<>>]
SequenceItem(seq) ==
    [kind |-> "sequence", value |-> <<>>, features |-> NoFeatures,
     series |-> Series("", <<>>), seq |-> seq]

\* _generate_commands_for_sequence: `command.expand_series(series, idx)' for
\* every pair of foreach_index_pairs raises
RECURSIVE ExpandPairsRaises(_, _)
ExpandPairsRaises(c, pairs) ==
    IF pairs = <<>> THEN FALSE
    ELSE \/ ExpandSeriesRaises(c, pairs[1][1])
         \/ ExpandPairsRaises(expand_series(c, pairs[1][1], pairs[1][2]), Tail(pairs))

\* _generate_commands_for_sequence: the command after every pair was applied
RECURSIVE ExpandPairs(_, _)
ExpandPairs(c, pairs) ==
    IF pairs = <<>> THEN c
    ELSE ExpandPairs(expand_series(c, pairs[1][1], pairs[1][2]), Tail(pairs))

\* _generate_commands_for_sequence: an item that is not a list raises, in
\* Command(item), while the pairs are applied or in generate_all_commands
ItemRaises(item, pairs) ==
    \/ item.kind = "foreach"
    \/ CommandRaises(item.features)
    \/ ExpandPairsRaises(Command(item.value, item.features), pairs)
    \/ GenerateRaises(ExpandPairs(Command(item.value, item.features), pairs))

\* _generate_commands_for_sequence that compares the series of a foreach with
\* the series of the nearest enclosing foreach only
RECURSIVE ParentOnlyRaises(_, _)
ParentOnlyRaises(sequence, pairs) ==
    IF sequence = <<>> THEN TRUE
    ELSE IF sequence[1].kind = "foreach"
      THEN \/ pairs # <<>> /\ SeriesEq(sequence[1].series, pairs[Len(pairs)][1])
           \/ \E index \in 1..Len(sequence[1].series.items) :
                 ParentOnlyRaises(Tail(sequence), Append(pairs, <<sequence[1].series, index>>))
      ELSE \E k \in 1..Len(sequence) :
              IF sequence[k].kind = "sequence"
                THEN ParentOnlyRaises(sequence[k].seq, pairs)
                ELSE ItemRaises(sequence[k], pairs)

\* _generate_commands_for_sequence raises
RECURSIVE SequenceRaises(_, _)
SequenceRaises(sequence, pairs) ==
    IF sequence = <<>> THEN TRUE
    ELSE IF sequence[1].kind = "foreach"
      THEN \/ \E p \in Range(pairs) : SeriesEq(sequence[1].series, p[1])
           \/ \E index \in 1..Len(sequence[1].series.items) :
                 SequenceRaises(Tail(sequence), Append(pairs, <<sequence[1].series, index>>))
      ELSE \E k \in 1..Len(sequence) :
              IF sequence[k].kind = "sequence"
                THEN SequenceRaises(sequence[k].seq, pairs)
                ELSE ItemRaises(sequence[k], pairs)

\* _generate_commands_for_sequence with the items of the series in reverse
RECURSIVE ForeachReversed(_, _)
ForeachReversed(sequence, pairs) ==
    IF sequence[1].kind = "foreach"
      THEN Chain([i \in 1..Len(sequence[1].series.items) |->
                    ForeachReversed(Tail(sequence),
                        Append(pairs, <<sequence[1].series,
                                        Len(sequence[1].series.items) + 1 - i>>))])
      ELSE Chain([k \in 1..Len(sequence) |->
                    IF sequence[k].kind = "sequence"
                      THEN ForeachReversed(sequence[k].seq, pairs)
                      ELSE generate_all_commands(
                             ExpandPairs(Command(sequence[k].value, sequence[k].features),
                                         pairs))])

\* _generate_commands_for_sequence, as the list of the commands it yields
RECURSIVE generate_commands_for_sequence(_, _)
generate_commands_for_sequence(sequence, pairs) ==
    IF sequence[1].kind = "foreach"
      THEN Chain([index \in 1..Len(sequence[1].series.items) |->
                    generate_commands_for_sequence(Tail(sequence),
                        Append(pairs, <<sequence[1].series, index>>))])
      ELSE Chain([k \in 1..Len(sequence) |->
                    IF sequence[k].kind = "sequence"
                      THEN generate_commands_for_sequence(sequence[k].seq, pairs)
                      ELSE generate_all_commands(
                             ExpandPairs(Command(sequence[k].value, sequence[k].features),
                                         pairs))])

\* parser.generate_commands raises
GenerateCommandsRaises(commands) == SequenceRaises(commands, <<>>)

\* parser.generate_commands, as `list(parser.generate_commands(commands))'
generate_commands(commands) == generate_commands_for_sequence(commands, <<>>)

\* the series of the foreach of a sequence with a long command: the longest
\* ones, and a labeled series of one item
LoopSeries == {s \in AllSeries : Len(s.items) = MaxItems} \cup {Series("k", <<"1">>)}

\* the documents given to generate_commands: one command, without features or
\* short with features; a sequence that begins with foreach, at top level
\* with one command and nested with two; a foreach inside a foreach, and
\* inside that a third; documents that cannot be expanded
FlatDocuments ==
    {<<CommandItem(t, NoFeatures)>> : t \in Strings}
      \cup {<<CommandItem(t, f)>> : t \in {<<>>} \cup ShortStrings, f \in FeatureMappings}
ForeachDocuments ==
    {<<ForeachItem(s), CommandItem(t, NoFeatures)>> : s \in LoopSeries, t \in Strings}
      \cup {<<ForeachItem(s), CommandItem(t, NoFeatures)>> : s \in AllSeries, t \in ShortStrings}
      \cup {<<SequenceItem(<<ForeachItem(s), CommandItem(t[1], NoFeatures),
                             CommandItem(t[2], NoFeatures)>>)>> :
               s \in AllSeries, t \in ShortStrings \X ShortStrings}
NestedDocuments ==
    {<<SequenceItem(<<ForeachItem(s[1]),
                      SequenceItem(<<ForeachItem(s[2]), CommandItem(t, NoFeatures)>>)>>)>> :
        s \in AllSeries \X AllSeries, t \in ShortStrings}
DeepDocuments ==
    {<<SequenceItem(<<ForeachItem(s[1]),
                      SequenceItem(<<ForeachItem(s[2]),
                                     SequenceItem(<<ForeachItem(s[3]),
                                                    CommandItem(<<Lit("x")>>, NoFeatures)>>)>>)>>)>> :
        s \in LoopSeries \X LoopSeries \X LoopSeries}
BrokenDocuments ==
    {<<>>} \cup {<<ForeachItem(s)>> : s \in AllSeries}
      \cup {<<CommandItem(<<Lit("x")>>, NoFeatures), ForeachItem(s)>> : s \in AllSeries}
ParserDocuments ==
    FlatDocuments \cup ForeachDocuments \cup NestedDocuments \cup DeepDocuments
      \cup BrokenDocuments

\* ------------------------------------------------------------------ state
VARIABLES
    doc,               \* the command list handed to run_commands
    output_timeout,    \* Runner._output_timeout (None or seconds)
    mainPc,            \* position of the main thread in run_commands
    idx,               \* number of entries the generator has yielded
    started_commands,  \* job ids in run_commands.started_commands
    name_result,       \* SharedContext._name_result
    predicates,        \* SharedContext._predicates
    results,           \* Runner._results
    threads,           \* Runner.threads: normal / background job ids
    procs,             \* Runner._procs: <<job, attempt>> of live Popen objects
    colors,            \* Runner._colors, in OrderedDict order
    dead,              \* Runner._dead
    pc,                \* position of each worker thread
    skip,              \* Job.run local `skip'
    passed,            \* Job.run / Runner._run local `passed'
    color,             \* colour leased by the worker
    attempts,          \* per job: status of the child of every attempt so far
    last_output_time,  \* Runner._run local
    out,               \* the child wrote output the pump has not read yet
    message,           \* final banner printed for the job
    now,               \* time.time()
    failed,            \* RunnerResults.failed
    running,           \* RunnerResults.running
    interrupt,         \* RunnerResults.interrupt
    outcome,           \* how run_commands ended: returned / raised / SystemExit
    phase,             \* main(): the run(...) call in progress: main / post / exit
    post_commands,     \* main(): data.get('post', []), <<>> until it is read
    timer,             \* main(): the --timeout threading.Timer
    failed_command,    \* main(): job reported as failed, NoCommand for None
    notice,            \* main(): KEYBOARD INTERRUPT was printed
    main_results,      \* Runner._results of the main phase when it returned
    main_message,      \* the banners of the main phase when it returned
    exit_status,       \* how main() left: None while it runs
    commands,          \* the list given to parser.generate_commands
    generated,         \* list(parser.generate_commands(commands))
    parse_status,      \* input / list / AssertionError
    retry_interval,    \* Runner._retry_interval
    name_counts,       \* Runner._name_counts
    command_name,      \* Runner._run local, per job
    log_paths,         \* per job: the stdout_path of every attempt so far
    slept              \* per job: the argument of every time.sleep(interval)

vars == <<doc, output_timeout, mainPc, idx, started_commands, name_result,
          predicates, results, threads, procs, colors, dead, pc, skip, passed,
          color, attempts, last_output_time, out, message, now, failed,
          running, interrupt, outcome, phase, post_commands, timer,
          failed_command, notice, main_results, main_message, exit_status,
          commands, generated, parse_status, retry_interval, name_counts,
          command_name, log_paths, slept>>

mainVars == <<mainPc, idx, started_commands, failed, running, interrupt, outcome>>
workerLocals == <<skip, passed, color, last_output_time, message>>
\* the locals of main()
programVars == <<phase, post_commands, timer, failed_command, notice, main_results,
                 main_message, exit_status>>
\* what no step of run_commands and no worker changes
\* the variables of the parser
parserVars == <<commands, generated, parse_status>>
\* the names of the log files and the retry interval, followed in AttemptSpec
attemptVars == <<retry_interval, name_counts, command_name, log_paths, slept>>
inputVars == <<doc, output_timeout, programVars, parserVars, attemptVars>>

Jobs == 1..Len(doc)

\* ---------------------------------------------------------- Job properties
\* Job.name
JobName(j) == doc[j].name
\* Job.background
JobBackground(j) == doc[j].background
\* Job.tags(key)
Tags(j, key) == doc[j][key]
\* Synchronous that makes start() join no thread
SynchronousNever(j) == FALSE

\* start(): `not (job.background or job.name)'
Synchronous(j) == ~(JobBackground(j) \/ JobName(j) # "")
\* Job.run: features.get('timeout', runner.output_timeout)
EffectiveTimeout(j) == IF doc[j].timeout = Absent THEN output_timeout ELSE doc[j].timeout
\* IsAlive that reports every thread as finished
IsAliveNever(j) == FALSE
\* Thread.is_alive()
IsAlive(j) == pc[j] \notin {"unstarted", "exited", "raised"}

\* the child of the job's latest attempt is running
ChildRunning(j) == attempts[j] # <<>> /\ attempts[j][Len(attempts[j])] = "running"

\* ------------------------------------------------------------------- Init
\* main(): `failed_command = None'
NoCommand == 0

\* the log files and the retry interval are not followed
NoAttempts ==
    /\ retry_interval = 1 /\ name_counts = <<>> /\ command_name = <<>>
    /\ log_paths = <<>> /\ slept = <<>>

\* Runner.__init__, SharedContext.__init__ and the locals of run_commands,
\* in main() up to `results = run(commands)'
Init ==
    /\ NoAttempts
    /\ \E run \in Runs : doc = run[1] /\ output_timeout = run[2]
    /\ post_commands = <<>>
    /\ timer \in Timers(doc)
    /\ phase = "main"
    /\ failed_command = NoCommand
    /\ notice = FALSE
    /\ main_results = <<>>
    /\ main_message = <<>>
    /\ exit_status = None
    /\ commands = <<>>
    /\ generated = <<>>
    /\ parse_status = "list"
    /\ mainPc = "loop"
    /\ idx = 0
    /\ started_commands = {}
    /\ name_result = <<>>
    /\ predicates = <<>>
    /\ results = <<>>
    /\ threads = [normal |-> {}, background |-> {}]
    /\ procs = {}
    /\ colors = [i \in 1..Len(COLORS) |-> [c |-> COLORS[i], n |-> 0]]
    /\ dead = FALSE
    /\ pc = [j \in Jobs |-> "unstarted"]
    /\ skip = [j \in Jobs |-> FALSE]
    /\ passed = [j \in Jobs |-> None]
    /\ color = [j \in Jobs |-> None]
    /\ attempts = [j \in Jobs |-> <<>>]
    /\ last_output_time = [j \in Jobs |-> 0]
    /\ out = [j \in Jobs |-> FALSE]
    /\ message = [j \in Jobs |-> None]
    /\ now = 0
    /\ failed = {}
    /\ running = {}
    /\ interrupt = FALSE
    /\ outcome = None

\* ------------------------------------------------------------ main thread
\* NameInUse without the assertion
NameInUseNever(name) == FALSE

\* SharedContext.register_name: the assertion fails
NameInUse(name) == name # "" /\ name \in DOMAIN name_result

\* SharedContext.register_name: the dictionary after a successful call
register_name(name) ==
    IF name = "" THEN name_result ELSE name_result @@ (name :> None)

\* run_commands: the generator is exhausted, the for loop ends
LoopEnd ==
    /\ mainPc = "loop"
    /\ idx = Len(doc)
    /\ mainPc' = "finish"
    /\ UNCHANGED <<idx, started_commands, failed, running, interrupt, outcome>>
    /\ UNCHANGED <<inputVars, name_result, predicates, results, threads, procs,
                   colors, dead, pc, workerLocals, attempts, out, now>>

\* parser.generate_commands is a generator: Command(item) of the next entry
\* is built, and its assertions are checked, when the loop asks for it.  The
\* AssertionError leaves the try block through `finally: kill_all()'.
ConfigError ==
    /\ mainPc = "loop"
    /\ idx < Len(doc)
    /\ ~doc[idx + 1].valid
    /\ mainPc' = "kill_all"
    /\ outcome' = "raised"
    /\ UNCHANGED <<idx, started_commands, failed, running, interrupt>>
    /\ UNCHANGED <<inputVars, name_result, predicates, results, threads, procs,
                   colors, dead, pc, workerLocals, attempts, out, now>>

\* run_commands loop body up to Runner.start's thread.start(): record the
\* command, _results[job_id] = None, Job.synchronous_prepare (which may
\* assert), register the thread and start it.
Start ==
    /\ mainPc = "loop"
    /\ idx < Len(doc)
    /\ doc[idx + 1].valid
    /\ LET j == idx + 1 IN
        /\ idx' = j
        /\ started_commands' = started_commands \cup {j}
        /\ results' = [k \in DOMAIN results \cup {j} |->
                          IF k = j THEN None ELSE results[k]]
        /\ IF NameInUse(JobName(j))
             THEN /\ mainPc' = "kill_all"
                  /\ outcome' = "raised"
                  /\ UNCHANGED <<name_result, threads, pc>>
             ELSE /\ name_result' = register_name(JobName(j))
                  /\ threads' = IF JobBackground(j)
                                  THEN [threads EXCEPT !.background = @ \cup {j}]
                                  ELSE [threads EXCEPT !.normal = @ \cup {j}]
                  /\ pc' = [pc EXCEPT ![j] = "wait_check"]
                  /\ mainPc' = "start_return"
                  /\ UNCHANGED outcome
    /\ UNCHANGED <<failed, running, interrupt>>
    /\ UNCHANGED <<inputVars, predicates, procs, colors, dead, workerLocals,
                   attempts, out, now>>

\* StopOnFailure without the break
StopOnFailureNever(result) == FALSE

\* run_commands: `if result is False: break'
StopOnFailure(result) == result = False

\* Runner.start after thread.start(): join a synchronous job, then return
\* self._results.get(job_id); run_commands breaks on False.
StartReturn ==
    /\ mainPc = "start_return"
    /\ Synchronous(idx) => ~IsAlive(idx)
    /\ mainPc' = IF StopOnFailure(results[idx]) THEN "finish" ELSE "loop"
    /\ UNCHANGED <<idx, started_commands, failed, running, interrupt, outcome>>
    /\ UNCHANGED <<inputVars, name_result, predicates, results, threads, procs,
                   colors, dead, pc, workerLocals, attempts, out, now>>

\* Runner.finish: join every thread of threads['normal']
Finish ==
    /\ mainPc = "finish"
    /\ \A j \in threads.normal : ~IsAlive(j)
    /\ mainPc' = "results_failed"
    /\ UNCHANGED <<idx, started_commands, failed, running, interrupt, outcome>>
    /\ UNCHANGED <<inputVars, name_result, predicates, results, threads, procs,
                   colors, dead, pc, workerLocals, attempts, out, now>>

\* Runner.failures
failures == {j \in DOMAIN results : results[j] = False}

\* Runner.running
running_jobs == {j \in DOMAIN results : results[j] = None}

\* run_commands.results, first list: failed=[... job_runner.failures()]
ResultsFailed ==
    /\ mainPc = "results_failed"
    /\ failed' = failures
    /\ mainPc' = "results_running"
    /\ UNCHANGED <<idx, started_commands, running, interrupt, outcome>>
    /\ UNCHANGED <<inputVars, name_result, predicates, results, threads, procs,
                   colors, dead, pc, workerLocals, attempts, out, now>>

\* run_commands.results, second list: running=[... job_runner.running()];
\* the RunnerResults is the return value, then `finally' runs kill_all
ResultsRunning ==
    /\ mainPc = "results_running"
    /\ running' = running_jobs
    /\ outcome' = "returned"
    /\ mainPc' = "kill_all"
    /\ UNCHANGED <<idx, started_commands, failed, interrupt>>
    /\ UNCHANGED <<inputVars, name_result, predicates, results, threads, procs,
                   colors, dead, pc, workerLocals, attempts, out, now>>

\* run_commands: `except KeyboardInterrupt: return results(interrupt=True)'.
\* The interrupt reaches the main thread anywhere inside the try block.
KeyboardInterrupt ==
    /\ mainPc \in {"loop", "start_return", "finish"}
    /\ Len(doc) <= MaxInterruptCmds
    /\ interrupt' = TRUE
    /\ mainPc' = "results_failed"
    /\ UNCHANGED <<idx, started_commands, failed, running, outcome>>
    /\ UNCHANGED <<inputVars, name_result, predicates, results, threads, procs,
                   colors, dead, pc, workerLocals, attempts, out, now>>

\* Runner.kill_all: self._dead = True
KillAll ==
    /\ mainPc = "kill_all"
    /\ dead' = TRUE
    /\ mainPc' = "kill_loop"
    /\ UNCHANGED <<idx, started_commands, failed, running, interrupt, outcome>>
    /\ UNCHANGED <<inputVars, name_result, predicates, results, threads, procs,
                   colors, pc, workerLocals, attempts, out, now>>

\* proc.kill(): a running child dies of the signal, an exited one is unchanged
Kill(status, how) == IF status = "running" THEN how ELSE status

\* Runner.kill_all, one round of the loop while some thread is alive:
\* proc.kill() for every proc of _procs
KillProcs ==
    /\ mainPc = "kill_loop"
    /\ \E j \in threads.normal \cup threads.background : IsAlive(j)
    /\ \E p \in procs : attempts[p[1]][p[2]] = "running"
    /\ attempts' = [j \in Jobs |->
                      [a \in 1..Len(attempts[j]) |->
                          IF <<j, a>> \in procs
                            THEN Kill(attempts[j][a], "killed")
                            ELSE attempts[j][a]]]
    /\ UNCHANGED mainVars
    /\ UNCHANGED <<inputVars, name_result, predicates, results, threads, procs,
                   colors, dead, pc, workerLocals, out, now>>

\* Runner.kill_all: no thread is alive, return True
KillReturn ==
    /\ mainPc = "kill_loop"
    /\ \A j \in threads.normal \cup threads.background : ~IsAlive(j)
    /\ mainPc' = "done"
    /\ UNCHANGED <<idx, started_commands, failed, running, interrupt, outcome>>
    /\ UNCHANGED <<inputVars, name_result, predicates, results, threads, procs,
                   colors, dead, pc, workerLocals, attempts, out, now>>

\* ------------------------------------------------------------------ main()
\* results.failed[0] and results.running[-1]: both lists follow the order of
\* Runner._results, whose keys are the job ids in the order they were started
First(S) == CHOOSE x \in S : \A y \in S : x <= y
Last(S) == CHOOSE x \in S : \A y \in S : y <= x

\* a report that names the last failed command
ReportsLastFailed(f, r, i) ==
    IF f # {} THEN Last(f)
    ELSE IF i /\ r # {} THEN Last(r)
    ELSE NoCommand

\* main(): the failed-command report
FailedCommand(f, r, i) ==
    IF f # {} THEN First(f)
    ELSE IF i /\ r # {} THEN Last(r)
    ELSE NoCommand

\* main(): `if failed_command: sys.exit("FAILED: Failed while running ...")',
\* else main() returns and the process exits 0
ExitStatus(fc) == IF fc # NoCommand THEN "FAILED: Failed while running" ELSE "0"

\* main(), finally: timer.cancel()
Cancel(t) == IF t = "armed" THEN "cancelled" ELSE t

\* the process exits: worker threads are daemon threads and end with it
Abandon == [j \in Jobs |-> IF IsAlive(j) THEN "abandoned" ELSE pc[j]]

\* main(): run(commands) returned and the file has no post command: the
\* interrupt notice, the failed-command report, the exit
MainExit ==
    /\ phase = "main" /\ mainPc = "done" /\ outcome = "returned"
    /\ post_commands' = <<>>
    /\ notice' = interrupt
    /\ failed_command' = FailedCommand(failed, running, interrupt)
    /\ main_results' = results
    /\ main_message' = message
    /\ exit_status' = ExitStatus(failed_command')
    /\ timer' = Cancel(timer)
    /\ phase' = "exit"
    /\ pc' = Abandon
    /\ UNCHANGED mainVars
    /\ UNCHANGED <<doc, output_timeout, parserVars, attemptVars, name_result, predicates, results,
                   threads, procs, colors, dead, workerLocals, attempts, out, now>>

\* main(): run(commands) returned and there are post commands: the interrupt
\* notice, the failed-command report, then run(post_commands) builds a new
\* Runner and SharedContext
RunPost ==
    /\ phase = "main" /\ mainPc = "done" /\ outcome = "returned"
    /\ post_commands' \in PostDocuments(doc) \ {<<>>}
    /\ notice' = interrupt
    /\ failed_command' = FailedCommand(failed, running, interrupt)
    /\ main_results' = results
    /\ main_message' = message
    /\ phase' = "post"
    /\ doc' = post_commands'
    /\ mainPc' = "loop"
    /\ idx' = 0
    /\ started_commands' = {}
    /\ name_result' = <<>>
    /\ predicates' = <<>>
    /\ results' = <<>>
    /\ threads' = [normal |-> {}, background |-> {}]
    /\ procs' = {}
    /\ colors' = [i \in 1..Len(COLORS) |-> [c |-> COLORS[i], n |-> 0]]
    /\ dead' = FALSE
    /\ pc' = [j \in 1..Len(post_commands') |-> "unstarted"]
    /\ skip' = [j \in 1..Len(post_commands') |-> FALSE]
    /\ passed' = [j \in 1..Len(post_commands') |-> None]
    /\ color' = [j \in 1..Len(post_commands') |-> None]
    /\ attempts' = [j \in 1..Len(post_commands') |-> <<>>]
    /\ last_output_time' = [j \in 1..Len(post_commands') |-> 0]
    /\ out' = [j \in 1..Len(post_commands') |-> FALSE]
    /\ message' = [j \in 1..Len(post_commands') |-> None]
    /\ failed' = {}
    /\ running' = {}
    /\ interrupt' = FALSE
    /\ outcome' = None
    /\ UNCHANGED <<output_timeout, timer, exit_status, now, parserVars, attemptVars>>

\* main(): run(post_commands) returned, its result is not looked at:
\* `if failed_command: sys.exit(...)', then the finally block
PostExit ==
    /\ phase = "post" /\ mainPc = "done" /\ outcome = "returned"
    /\ exit_status' = ExitStatus(failed_command)
    /\ timer' = Cancel(timer)
    /\ phase' = "exit"
    /\ pc' = Abandon
    /\ UNCHANGED mainVars
    /\ UNCHANGED <<doc, output_timeout, parserVars, attemptVars, post_commands, failed_command, notice,
                   main_results, main_message, name_result, predicates, results, threads, procs,
                   colors, dead, workerLocals, attempts, out, now>>

\* main(): an exception leaves run(...) and main() through the finally block:
\* SystemExit("FAILED") of the SIGTERM handler, or an AssertionError
Propagate ==
    /\ phase \in {"main", "post"} /\ mainPc = "done"
    /\ outcome \in {"raised", "SystemExit"}
    /\ exit_status' = IF outcome = "SystemExit" THEN "FAILED" ELSE "AssertionError"
    /\ timer' = Cancel(timer)
    /\ phase' = "exit"
    /\ pc' = Abandon
    /\ UNCHANGED mainVars
    /\ UNCHANGED <<doc, output_timeout, parserVars, attemptVars, post_commands, failed_command, notice,
                   main_results, main_message, name_result, predicates, results, threads, procs,
                   colors, dead, workerLocals, attempts, out, now>>

\* where the main thread goes when SystemExit is raised at position p: from
\* the try block of run_commands into `finally: kill_all()'; from inside
\* kill_all, or from main() itself, straight out
AfterSystemExit(p) ==
    IF p \in {"loop", "start_return", "finish", "results_failed", "results_running"}
      THEN "kill_all" ELSE "done"

\* the timer expires: timeout_handler sends SIGTERM to the process and the
\* handler `terminate' raises SystemExit("FAILED") in the main thread,
\* wherever it is
Timeout ==
    /\ timer = "armed"
    /\ phase \in {"main", "post"}
    /\ timer' = "fired"
    /\ mainPc' = AfterSystemExit(mainPc)
    /\ outcome' = "SystemExit"
    /\ UNCHANGED <<idx, started_commands, failed, running, interrupt>>
    /\ UNCHANGED <<doc, output_timeout, parserVars, attemptVars, phase, post_commands, failed_command,
                   notice, main_results, main_message, exit_status, name_result,
                   predicates,
                   results, threads, procs, colors, dead, pc, workerLocals,
                   attempts, out, now>>

\* ---------------------------------------------------------- SharedContext
\* wait_for_dependencies: name_result[d] raises KeyError, `any' reads the
\* names in order and stops at the first pending one
DependencyUnknown(depends_on) ==
    \E i \in 1..Len(depends_on) :
        /\ depends_on[i] \notin DOMAIN name_result
        /\ \A k \in 1..(i - 1) :
              depends_on[k] \in DOMAIN name_result /\ name_result[depends_on[k]] # None

\* AnyPending without the wait: the loop condition is never true
AnyPendingNoWait(depends_on) == FALSE

\* wait_for_dependencies: `any(self._name_result[d] is None for d in depends_on)'
AnyPending(depends_on) ==
    \E i \in 1..Len(depends_on) :
        /\ depends_on[i] \in DOMAIN name_result
        /\ name_result[depends_on[i]] = None

\* FailedDependencies that reports no failed name
FailedDependenciesIgnored(depends_on) == {}

\* wait_for_dependencies: `[d for d in depends_on if not self._name_result[d]]'
FailedDependencies(depends_on) ==
    {d \in Range(depends_on) : name_result[d] # True}

\* should_skip: `any(self._predicates[p] for p in preds)' raises KeyError
AnyPredRaises(preds) ==
    \E i \in 1..Len(preds) :
        /\ preds[i] \notin DOMAIN predicates
        /\ \A k \in 1..(i - 1) :
              preds[k] \in DOMAIN predicates /\ predicates[preds[k]] # True

\* should_skip: `any(self._predicates[p] for p in preds)'
AnyPred(preds) ==
    \E i \in 1..Len(preds) : preds[i] \in DOMAIN predicates /\ predicates[preds[i]] = True

\* should_skip raises: the assertion on mixing, or a predicate nobody has set
ShouldSkipRaises(if_preds, unless_preds) ==
    \/ if_preds # <<>> /\ unless_preds # <<>>
    \/ if_preds # <<>> /\ AnyPredRaises(if_preds)
    \/ if_preds = <<>> /\ unless_preds # <<>> /\ AnyPredRaises(unless_preds)

\* should_skip: the value returned, as a truth value
should_skip(if_preds, unless_preds) ==
    \/ if_preds # <<>> /\ ~AnyPred(if_preds)
    \/ unless_preds # <<>> /\ AnyPred(unless_preds)

\* ---------------------------------------------------------------- workers
\* A worker takes one step per access to state it shares with other threads;
\* a call that touches none (should_skip without predicates, mark_as_done
\* without a name, set_predicates without names) is part of the step before.

\* Job.run after wait_for_dependencies returned no failed name
AfterDependencies(j) ==
    IF Tags(j, "if") = <<>> /\ Tags(j, "unless") = <<>>
      THEN "using_color" ELSE "should_skip"

\* Job.run after mark_as_done
AfterMarkAsDone(j) ==
    IF Tags(j, "set") = <<>> THEN "store_result" ELSE "set_predicates"

\* Job.run after runner.run returned
AfterRun(j) ==
    IF JobName(j) = "" THEN AfterMarkAsDone(j) ELSE "mark_as_done"

\* Job.run -> wait_for_dependencies: one evaluation of the loop condition.
\* Pending: go on to `with self._done_event: self._done_event.wait()'.
\* Otherwise the failed names are returned; Job.run returns False for a
\* non-empty list (NOT STARTED) without marking its own name.
WaitForDependencies(j) ==
    /\ pc[j] = "wait_check"
    /\ LET depends_on == Tags(j, "depends_on") IN
        IF DependencyUnknown(depends_on)
          THEN /\ pc' = [pc EXCEPT ![j] = "raised"]
               /\ UNCHANGED <<passed, message>>
          ELSE IF AnyPending(depends_on)
            THEN /\ pc' = [pc EXCEPT ![j] = "wait_enter"]
                 /\ UNCHANGED <<passed, message>>
            ELSE IF FailedDependencies(depends_on) # {}
              THEN /\ pc' = [pc EXCEPT ![j] = "store_result"]
                   /\ passed' = [passed EXCEPT ![j] = False]
                   /\ message' = [message EXCEPT ![j] = "NOT STARTED"]
              ELSE /\ pc' = [pc EXCEPT ![j] = AfterDependencies(j)]
                   /\ UNCHANGED <<passed, message>>
    /\ UNCHANGED mainVars
    /\ UNCHANGED <<inputVars, name_result, predicates, results, threads, procs,
                   colors, dead, skip, color, last_output_time, attempts, out, now>>

\* wait_for_dependencies: the thread acquires the condition and blocks in
\* wait() until the next notify_all
ConditionWait(j) ==
    /\ pc[j] = "wait_enter"
    /\ pc' = [pc EXCEPT ![j] = "waiting"]
    /\ UNCHANGED mainVars
    /\ UNCHANGED <<inputVars, name_result, predicates, results, threads, procs,
                   colors, dead, workerLocals, attempts, out, now>>

\* Job.run: skip = shared_context.should_skip(if_preds, unless_preds)
ShouldSkip(j) ==
    /\ pc[j] = "should_skip"
    /\ IF ShouldSkipRaises(Tags(j, "if"), Tags(j, "unless"))
         THEN /\ pc' = [pc EXCEPT ![j] = "raised"]
              /\ UNCHANGED skip
         ELSE /\ pc' = [pc EXCEPT ![j] = "using_color"]
              /\ skip' = [skip EXCEPT ![j] = should_skip(Tags(j, "if"), Tags(j, "unless"))]
    /\ UNCHANGED mainVars
    /\ UNCHANGED <<inputVars, name_result, predicates, results, threads, procs,
                   colors, dead, passed, color, last_output_time, message,
                   attempts, out, now>>

\* a pick that takes the last free colour of _colors instead of the first
PickNewestFree ==
    IF \E i \in 1..Len(colors) : colors[i].n = 0
      THEN CHOOSE i \in 1..Len(colors) :
             colors[i].n = 0 /\ \A k \in (i + 1)..Len(colors) : colors[k].n # 0
      ELSE 0

\* using_color: position in _colors of the colour picked, 0 when every colour
\* is in use (the chained iterator then yields a (colour, count) pair)
PickColor ==
    IF \E i \in 1..Len(colors) : colors[i].n = 0
      THEN CHOOSE i \in 1..Len(colors) :
             colors[i].n = 0 /\ \A k \in 1..(i - 1) : colors[k].n # 0
      ELSE 0

\* using_color: `self._colors[color] = self._colors.pop(color) + 1'
Lease(i) ==
    [k \in 1..Len(colors) |->
        IF k < i THEN colors[k]
        ELSE IF k < Len(colors) THEN colors[k + 1]
        ELSE [c |-> colors[i].c, n |-> colors[i].n + 1]]

\* a release that takes the count down twice
ReleaseTwice(c) ==
    [k \in 1..Len(colors) |->
        IF colors[k].c = c THEN [colors[k] EXCEPT !.n = @ - 2] ELSE colors[k]]

\* using_color, the finally clause: `self._colors[color] -= 1'
Release(c) ==
    [k \in 1..Len(colors) |->
        IF colors[k].c = c THEN [colors[k] EXCEPT !.n = @ - 1] ELSE colors[k]]

\* Runner.run: enter `with self.using_color() as color'
UsingColor(j) ==
    /\ pc[j] = "using_color"
    /\ IF PickColor = 0
         THEN /\ pc' = [pc EXCEPT ![j] = "raised"]
              /\ UNCHANGED <<colors, color, passed, message>>
         ELSE /\ colors' = Lease(PickColor)
              /\ color' = [color EXCEPT ![j] = colors[PickColor].c]
              /\ pc' = [pc EXCEPT ![j] = IF skip[j] THEN "skip_done" ELSE "spawn"]
              /\ UNCHANGED <<passed, message>>
    /\ UNCHANGED mainVars
    /\ UNCHANGED <<inputVars, name_result, predicates, results, threads, procs,
                   dead, skip, last_output_time, attempts, out, now>>

\* Runner._run, top of the attempt loop: create the log files, Popen the
\* command and append the process to _procs; last_output_time = time.time()
Spawn(j) ==
    /\ pc[j] = "spawn"
    /\ attempts' = [attempts EXCEPT ![j] = Append(@, "running")]
    /\ procs' = procs \cup {<<j, Len(attempts[j]) + 1>>}
    /\ last_output_time' = [last_output_time EXCEPT ![j] = now]
    /\ out' = [out EXCEPT ![j] = FALSE]
    /\ pc' = [pc EXCEPT ![j] = "poll"]
    /\ UNCHANGED mainVars
    /\ UNCHANGED <<inputVars, name_result, predicates, results, threads, colors,
                   dead, skip, passed, color, message, now>>

\* OutputTimedOut that also applies to background jobs
OutputTimedOutAnyJob(timeout, current_time, last, background) ==
    timeout # NoTimeout /\ current_time > last + timeout

\* Runner._run: the output timeout test of the polling loop
OutputTimedOut(timeout, current_time, last, background) ==
    timeout # NoTimeout /\ current_time > last + timeout /\ ~background

\* Runner._run: one round of `while proc.poll() is None': print the new
\* output, kill the child on output timeout, else note the time of output
PollLoop(j) ==
    /\ pc[j] = "poll"
    /\ ChildRunning(j)
    /\ LET saw_output == out[j]
           current_time == now
       IN IF OutputTimedOut(EffectiveTimeout(j), current_time, last_output_time[j],
                            JobBackground(j))
            THEN /\ attempts' = [attempts EXCEPT
                                   ![j][Len(attempts[j])] = Kill(@, "timeout")]
                 /\ UNCHANGED last_output_time
            ELSE /\ last_output_time' =
                       IF saw_output
                         THEN [last_output_time EXCEPT ![j] = current_time]
                         ELSE last_output_time
                 /\ UNCHANGED attempts
    /\ out' = [out EXCEPT ![j] = FALSE]
    /\ UNCHANGED mainVars
    /\ UNCHANGED <<inputVars, name_result, predicates, results, threads, procs,
                   colors, dead, pc, skip, passed, color, message, now>>

\* Runner._run: `passed = not bool(proc.returncode)'
Passed(status) == PyBool(status = "exit0")

\* RetryDecision that is off by one: `elif attempt <= retries'
RetryDecisionOneMore(p, isDead, attempt, retries) ==
    IF p = True \/ isDead THEN "break"
    ELSE IF attempt <= retries THEN "sleep"
    ELSE "exhausted"

\* Runner._run: `if passed or self._dead: break / elif attempt < retries:'
\* (attempt is the 0-based number of the attempt that just ended)
RetryDecision(p, isDead, attempt, retries) ==
    IF p = True \/ isDead THEN "break"
    ELSE IF attempt < retries THEN "sleep"
    ELSE "exhausted"

\* Banner that does not look at the dead flag
BannerNoDead(p, isDead, ignore_status) ==
    IF p = True THEN "Done"
    ELSE IF ignore_status THEN "Failed"
    ELSE "FAILED"

\* Runner._run: the banner printed after the attempt loop
Banner(p, isDead, ignore_status) ==
    IF p = True THEN "Done"
    ELSE IF isDead THEN "Terminated"
    ELSE IF ignore_status THEN "Failed"
    ELSE "FAILED"

\* Runner._run: the child has exited.  Print the rest of its output, remove
\* the process from _procs, compute `passed' and decide on a retry.  When
\* the loop ends here the final banner is printed, Runner._run returns
\* `passed' and Runner.run gives the colour back.
Reap(j) ==
    /\ pc[j] = "poll"
    /\ ~ChildRunning(j)
    /\ out' = [out EXCEPT ![j] = FALSE]
    /\ procs' = procs \ {<<j, Len(attempts[j])>>}
    /\ LET p == Passed(attempts[j][Len(attempts[j])]) IN
        /\ passed' = [passed EXCEPT ![j] = p]
        /\ IF RetryDecision(p, dead, Len(attempts[j]) - 1, doc[j].retries) = "sleep"
             THEN /\ pc' = [pc EXCEPT ![j] = "sleep"]
                  /\ UNCHANGED <<message, colors>>
             ELSE /\ pc' = [pc EXCEPT ![j] = AfterRun(j)]
                  /\ message' = [message EXCEPT ![j] =
                                   Banner(p, dead, Tags(j, "set") # <<>>)]
                  /\ colors' = Release(color[j])
    /\ UNCHANGED mainVars
    /\ UNCHANGED <<inputVars, name_result, predicates, results, threads, dead,
                   skip, color, last_output_time, attempts, now>>

\* Runner._run: time.sleep(interval) is over, the for loop starts the next
\* attempt
RetrySleep(j) ==
    /\ pc[j] = "sleep"
    /\ pc' = [pc EXCEPT ![j] = "spawn"]
    /\ UNCHANGED mainVars
    /\ UNCHANGED <<inputVars, name_result, predicates, results, threads, procs,
                   colors, dead, workerLocals, attempts, out, now>>

\* a skip fast path that returns False
SkipReturnsFalse(j) ==
    /\ pc[j] = "skip_done"
    /\ passed' = [passed EXCEPT ![j] = False]
    /\ message' = [message EXCEPT ![j] = "Skipping"]
    /\ colors' = Release(color[j])
    /\ pc' = [pc EXCEPT ![j] = AfterRun(j)]
    /\ UNCHANGED mainVars
    /\ UNCHANGED <<inputVars, name_result, predicates, results, threads, procs,
                   dead, skip, color, last_output_time, attempts, out, now>>

\* Runner._run, skip fast path: `Skipping' is printed, True is returned and
\* Runner.run gives the colour back
SkipDone(j) ==
    /\ pc[j] = "skip_done"
    /\ passed' = [passed EXCEPT ![j] = True]
    /\ message' = [message EXCEPT ![j] = "Skipping"]
    /\ colors' = Release(color[j])
    /\ pc' = [pc EXCEPT ![j] = AfterRun(j)]
    /\ UNCHANGED mainVars
    /\ UNCHANGED <<inputVars, name_result, predicates, results, threads, procs,
                   dead, skip, color, last_output_time, attempts, out, now>>

\* SharedContext.mark_as_done: `self._name_result[name] = success'
mark_as_done(name, success) == [name_result EXCEPT ![name] = success]

\* SharedContext.mark_as_done for a named job: record the result and
\* notify_all the threads blocked in wait()
MarkAsDone(j) ==
    /\ pc[j] = "mark_as_done"
    /\ name_result' = mark_as_done(JobName(j), passed[j])
    /\ pc' = [k \in Jobs |->
                IF k = j THEN AfterMarkAsDone(j)
                ELSE IF pc[k] = "waiting" THEN "wait_check"
                ELSE pc[k]]
    /\ UNCHANGED mainVars
    /\ UNCHANGED <<inputVars, predicates, results, threads, procs, colors, dead,
                   workerLocals, attempts, out, now>>

\* SharedContext.set_predicates(passed, predicates)
set_predicates(p, preds) ==
    [q \in DOMAIN predicates \cup Range(preds) |->
        IF q \in Range(preds) THEN p ELSE predicates[q]]

\* Job.run: shared_context.set_predicates(passed, set_predicates)
SetPredicates(j) ==
    /\ pc[j] = "set_predicates"
    /\ predicates' = set_predicates(passed[j], Tags(j, "set"))
    /\ pc' = [pc EXCEPT ![j] = "store_result"]
    /\ UNCHANGED mainVars
    /\ UNCHANGED <<inputVars, name_result, results, threads, procs, colors, dead,
                   workerLocals, attempts, out, now>>

\* Runner._run_job: the value recorded for a job whose Job.run returned p
JobResult(j, p) == p

\* Runner._run_job: self._results[job_id] = passed, then the thread ends
StoreResult(j) ==
    /\ pc[j] = "store_result"
    /\ results' = [results EXCEPT ![j] = JobResult(j, passed[j])]
    /\ pc' = [pc EXCEPT ![j] = "exited"]
    /\ UNCHANGED mainVars
    /\ UNCHANGED <<inputVars, name_result, predicates, threads, procs, colors,
                   dead, workerLocals, attempts, out, now>>

\* ------------------------------------------------------------ environment
\* the child process ends by itself with exit status 0 or 1
ChildExit(j) ==
    /\ ChildRunning(j)
    /\ \E status \in {"exit0", "exit1"} :
          attempts' = [attempts EXCEPT ![j][Len(attempts[j])] = status]
    /\ UNCHANGED mainVars
    /\ UNCHANGED <<inputVars, name_result, predicates, results, threads, procs,
                   colors, dead, pc, workerLocals, out, now>>

\* the child process writes to its stdout or stderr
ChildOutput(j) ==
    /\ ChildRunning(j)
    /\ EffectiveTimeout(j) # NoTimeout
    /\ ~out[j]
    /\ out' = [out EXCEPT ![j] = TRUE]
    /\ UNCHANGED mainVars
    /\ UNCHANGED <<inputVars, name_result, predicates, results, threads, procs,
                   colors, dead, pc, workerLocals, attempts, now>>

\* a second passes; the clock is only read by the output timeout test, so
\* it advances only while a supervised child has a timeout
Tick ==
    /\ now < MaxTime
    /\ \E j \in Jobs : ChildRunning(j) /\ EffectiveTimeout(j) # NoTimeout
    /\ now' = now + 1
    /\ UNCHANGED mainVars
    /\ UNCHANGED <<inputVars, name_result, predicates, results, threads, procs,
                   colors, dead, pc, workerLocals, attempts, out>>

\* ---------------------------------------------------------- specification
Next ==
    \/ LoopEnd
    \/ ConfigError
    \/ Start
    \/ StartReturn
    \/ Finish
    \/ ResultsFailed
    \/ ResultsRunning
    \/ KeyboardInterrupt
    \/ KillAll
    \/ KillProcs
    \/ KillReturn
    \/ MainExit
    \/ RunPost
    \/ PostExit
    \/ Propagate
    \/ Timeout
    \/ \E j \in Jobs : WaitForDependencies(j)
    \/ \E j \in Jobs : ConditionWait(j)
    \/ \E j \in Jobs : ShouldSkip(j)
    \/ \E j \in Jobs : UsingColor(j)
    \/ \E j \in Jobs : Spawn(j)
    \/ \E j \in Jobs : PollLoop(j)
    \/ \E j \in Jobs : Reap(j)
    \/ \E j \in Jobs : RetrySleep(j)
    \/ \E j \in Jobs : SkipDone(j)
    \/ \E j \in Jobs : MarkAsDone(j)
    \/ \E j \in Jobs : SetPredicates(j)
    \/ \E j \in Jobs : StoreResult(j)
    \/ \E j \in Jobs : ChildExit(j)
    \/ \E j \in Jobs : ChildOutput(j)
    \/ Tick

Spec == Init /\ [][Next]_vars

\* ------------------------------------------ specification of the colour pool
\* a background job that is skipped: `unless: p' with p true
Skipped == [Background EXCEPT !.unless = <<"p">>]

\* MaxLeases background jobs: long-running ones, which keep their colour, and
\* at the end two skipped ones, which give it back
PoolDocument == [j \in 1..MaxLeases |-> IF j <= MaxLeases - 2 THEN Background ELSE Skipped]

\* run_commands has started every job of PoolDocument and every worker has
\* its skip decision: each is about to enter `with self.using_color()'
PoolInit ==
    /\ doc = PoolDocument /\ output_timeout = NoTimeout
    /\ mainPc = "start_return" /\ idx = MaxLeases
    /\ started_commands = 1..MaxLeases
    /\ name_result = <<>> /\ predicates = [q \in {"p"} |-> True]
    /\ results = [j \in 1..MaxLeases |-> None]
    /\ threads = [normal |-> {}, background |-> 1..MaxLeases]
    /\ procs = {}
    /\ colors = [i \in 1..Len(COLORS) |-> [c |-> COLORS[i], n |-> 0]]
    /\ dead = FALSE
    /\ pc = [j \in 1..MaxLeases |-> "using_color"]
    /\ skip = [j \in 1..MaxLeases |-> PoolDocument[j] = Skipped]
    /\ passed = [j \in 1..MaxLeases |-> None]
    /\ color = [j \in 1..MaxLeases |-> None]
    /\ attempts = [j \in 1..MaxLeases |-> <<>>]
    /\ last_output_time = [j \in 1..MaxLeases |-> 0]
    /\ out = [j \in 1..MaxLeases |-> FALSE]
    /\ message = [j \in 1..MaxLeases |-> None]
    /\ now = 0 /\ failed = {} /\ running = {} /\ interrupt = FALSE /\ outcome = None
    /\ phase = "main" /\ post_commands = <<>> /\ timer = "unset"
    /\ failed_command = NoCommand /\ notice = FALSE
    /\ main_results = <<>> /\ main_message = <<>> /\ exit_status = None
    /\ commands = <<>> /\ generated = <<>> /\ parse_status = "list"
    /\ NoAttempts

\* the workers enter and leave using_color
PoolNext ==
    \/ \E j \in Jobs : UsingColor(j)
    \/ \E j \in Jobs : SkipDone(j)

PoolSpec == PoolInit /\ [][PoolNext]_vars

\* ----------------------------------------------- specification of the parser
\* no Runner exists: the variables of the scheduler keep these values
NoRunner ==
    /\ doc = <<>> /\ output_timeout = NoTimeout /\ mainPc = "done" /\ idx = 0
    /\ started_commands = {} /\ name_result = <<>> /\ predicates = <<>>
    /\ results = <<>> /\ threads = [normal |-> {}, background |-> {}]
    /\ procs = {} /\ colors = <<>> /\ dead = FALSE /\ pc = <<>> /\ skip = <<>>
    /\ passed = <<>> /\ color = <<>> /\ attempts = <<>> /\ last_output_time = <<>>
    /\ out = <<>> /\ message = <<>> /\ now = 0 /\ failed = {} /\ running = {}
    /\ interrupt = FALSE /\ outcome = None /\ phase = "exit" /\ post_commands = <<>>
    /\ timer = "unset" /\ failed_command = NoCommand /\ notice = FALSE
    /\ main_results = <<>> /\ main_message = <<>> /\ exit_status = None
    /\ NoAttempts

\* the document is given
ParserInit ==
    /\ NoRunner
    /\ commands \in ParserDocuments
    /\ generated = <<>>
    /\ parse_status = "input"

\* list(parser.generate_commands(commands)) returns the list
ParseList ==
    /\ parse_status = "input"
    /\ ~GenerateCommandsRaises(commands)
    /\ generated' = generate_commands(commands)
    /\ parse_status' = "list"
    /\ UNCHANGED <<commands, doc, output_timeout, programVars, mainVars, name_result,
                   attemptVars,
                   predicates, results, threads, procs, colors, dead, pc,
                   workerLocals, attempts, out, now>>

\* list(parser.generate_commands(commands)) raises AssertionError
ParseRaises ==
    /\ parse_status = "input"
    /\ GenerateCommandsRaises(commands) = TRUE
    /\ parse_status' = "AssertionError"
    /\ UNCHANGED <<commands, generated, doc, output_timeout, programVars, mainVars,
                   attemptVars,
                   name_result, predicates, results, threads, procs, colors, dead,
                   pc, workerLocals, attempts, out, now>>

ParserNext == ParseList \/ ParseRaises

ParserSpec == ParserInit /\ [][ParserNext]_vars

\* ------------------------------------ specification of the attempts of _run
\* the characters matched by \w among those of the command texts below
WordChars == {"a", "x", "1", "_"}

\* command texts, as sequences of characters: `a x', ` a' and `a_1'
AttemptTexts == {<<"a", " ", "x">>, <<" ", "a">>, <<"a", "_", "1">>}

\* the run of \w characters at the start of text t
RECURSIVE WordRun(_)
WordRun(t) ==
    IF t = <<>> \/ t[1] \notin WordChars THEN "" ELSE t[1] \o WordRun(Tail(t))

\* create_name: re.search('\w+', command).group(0)
RECURSIVE FirstWord(_)
FirstWord(t) == IF t[1] \in WordChars THEN WordRun(t) ELSE FirstWord(Tail(t))

\* a job with a command text, `name', `background', `retries' and `interval'
\* (Absent when the command declares none); `interval' matters only to a job
\* that has retries
AttemptJobs ==
    { [command |-> t, name |-> n, background |-> bg, retries |-> r, interval |-> i] :
        t \in AttemptTexts, n \in {"", "a"}, bg \in BOOLEAN,
        r \in 0..MaxRetries, i \in {Absent, 0, MaxTime} }
      \ { [command |-> t, name |-> n, background |-> bg, retries |-> 0, interval |-> i] :
            t \in AttemptTexts, n \in {"", "a"}, bg \in BOOLEAN, i \in {0, MaxTime} }

\* the lists of one or two such jobs in which no name is used twice
AttemptDocuments ==
    { d \in SeqsUpTo(AttemptJobs, 2) :
        \A i, k \in 1..Len(d) : (i # k /\ d[i].name # "") => d[i].name # d[k].name }

\* Job.run: `interval=self.command.features.get('interval', 1)'
JobInterval(j) == IF doc[j].interval = Absent THEN 1 ELSE doc[j].interval

\* Runner._run: `interval = interval or self._retry_interval'
RunInterval(interval, default) ==
    IF interval # Absent /\ interval # 0 THEN interval ELSE default

\* '{}_{}'.format(a, n)
Format(a, n) == a \o "_" \o ToString(n)

\* run_commands(commands, retry_interval=...) is called: no job is started
AttemptInit ==
    /\ doc \in AttemptDocuments /\ output_timeout = NoTimeout
    /\ retry_interval \in 1..MaxTime
    /\ name_counts = <<>>
    /\ command_name = [j \in 1..Len(doc) |-> ""]
    /\ log_paths = [j \in 1..Len(doc) |-> <<>>]
    /\ slept = [j \in 1..Len(doc) |-> <<>>]
    /\ mainPc = "loop" /\ idx = 0 /\ started_commands = {}
    /\ name_result = <<>> /\ predicates = <<>>
    /\ results = <<>> /\ threads = [normal |-> {}, background |-> {}]
    /\ procs = {}
    /\ colors = [i \in 1..Len(COLORS) |-> [c |-> COLORS[i], n |-> 0]]
    /\ dead = FALSE
    /\ pc = [j \in 1..Len(doc) |-> "unstarted"]
    /\ skip = [j \in 1..Len(doc) |-> FALSE]
    /\ passed = [j \in 1..Len(doc) |-> None]
    /\ color = [j \in 1..Len(doc) |-> None]
    /\ attempts = [j \in 1..Len(doc) |-> <<>>]
    /\ last_output_time = [j \in 1..Len(doc) |-> 0]
    /\ out = [j \in 1..Len(doc) |-> FALSE]
    /\ message = [j \in 1..Len(doc) |-> None]
    /\ now = 0 /\ failed = {} /\ running = {} /\ interrupt = FALSE /\ outcome = None
    /\ phase = "main" /\ post_commands = <<>> /\ timer = "unset"
    /\ failed_command = NoCommand /\ notice = FALSE
    /\ main_results = <<>> /\ main_message = <<>> /\ exit_status = None
    /\ commands = <<>> /\ generated = <<>> /\ parse_status = "list"

\* what the attempts of _run leave alone
attemptFixed ==
    <<doc, output_timeout, retry_interval, programVars, parserVars, mainPc,
      started_commands, failed, running, interrupt, outcome, name_result,
      predicates, results, threads, procs, colors, dead, skip, color, attempts,
      last_output_time, out, message, now>>

\* run_commands: the loop starts the next job, after start() has returned
\* for the job before it: a synchronous job has been joined, and the loop
\* has stopped if the result was False
StartJob ==
    /\ idx < Len(doc)
    /\ idx > 0 => (passed[idx] # False /\ (Synchronous(idx) => pc[idx] = "exited"))
    /\ idx' = idx + 1
    /\ pc' = [pc EXCEPT ![idx + 1] = "create_name"]
    /\ UNCHANGED <<attemptFixed, passed, name_counts, command_name, log_paths, slept>>

\* create_name: `if name: command_name = name', else the first word is
\* looked up in _name_counts
CreateName(j) ==
    /\ pc[j] = "create_name"
    /\ IF JobName(j) # ""
         THEN /\ command_name' = [command_name EXCEPT ![j] = JobName(j)]
              /\ pc' = [pc EXCEPT ![j] = "open"]
         ELSE /\ command_name' =
                   [command_name EXCEPT ![j] = FirstWord(doc[j].command)]
              /\ pc' = [pc EXCEPT ![j] =
                          IF command_name'[j] \in DOMAIN name_counts
                            THEN "increment" ELSE "insert"]
    /\ UNCHANGED <<attemptFixed, idx, passed, name_counts, log_paths, slept>>

\* create_name: `self._name_counts[command_name] += 1' and the name with
\* the count as suffix
NameIncrement(j) ==
    /\ pc[j] = "increment"
    /\ name_counts' = [name_counts EXCEPT ![command_name[j]] = @ + 1]
    /\ command_name' =
          [command_name EXCEPT ![j] = Format(@, name_counts'[command_name[j]])]
    /\ pc' = [pc EXCEPT ![j] = "open"]
    /\ UNCHANGED <<attemptFixed, idx, passed, log_paths, slept>>

\* create_name: `self._name_counts[command_name] = 0'
NameInsert(j) ==
    /\ pc[j] = "insert"
    /\ name_counts' =
          [w \in DOMAIN name_counts \cup {command_name[j]} |->
              IF w = command_name[j] THEN 0 ELSE name_counts[w]]
    /\ pc' = [pc EXCEPT ![j] = "open"]
    /\ UNCHANGED <<attemptFixed, idx, passed, command_name, log_paths, slept>>

\* Runner._run: stdout_path is '{}_{}.stdout'.format(command_name, attempt),
\* the log files are opened for writing and the child is started on them
OpenLogs(j) ==
    /\ pc[j] = "open"
    /\ log_paths' =
          [log_paths EXCEPT ![j] = Append(@, Format(command_name[j], Len(@)))]
    /\ pc' = [pc EXCEPT ![j] = "poll"]
    /\ UNCHANGED <<attemptFixed, idx, passed, name_counts, command_name, slept>>

\* Runner._run: the child failed and `attempt < retries': time.sleep(interval),
\* then the next attempt
RetryAttempt(j) ==
    /\ pc[j] = "poll"
    /\ Len(log_paths[j]) - 1 < doc[j].retries
    /\ slept' = [slept EXCEPT ![j] =
                   Append(@, RunInterval(JobInterval(j), retry_interval))]
    /\ pc' = [pc EXCEPT ![j] = "create_name"]
    /\ UNCHANGED <<attemptFixed, idx, passed, name_counts, command_name, log_paths>>

\* Runner._run returns: the child passed, or it failed and no attempt is left
RunReturns(j) ==
    /\ pc[j] = "poll"
    /\ \E ok \in {True, False} :
          /\ ok = False => Len(log_paths[j]) - 1 >= doc[j].retries
          /\ passed' = [passed EXCEPT ![j] = ok]
    /\ pc' = [pc EXCEPT ![j] = "exited"]
    /\ UNCHANGED <<attemptFixed, idx, name_counts, command_name, log_paths, slept>>

AttemptNext ==
    \/ StartJob
    \/ \E j \in Jobs : CreateName(j)
    \/ \E j \in Jobs : NameIncrement(j)
    \/ \E j \in Jobs : NameInsert(j)
    \/ \E j \in Jobs : OpenLogs(j)
    \/ \E j \in Jobs : RetryAttempt(j)
    \/ \E j \in Jobs : RunReturns(j)

AttemptSpec == AttemptInit /\ [][AttemptNext]_vars

\* ================================================================= claims
\* the worker of job j is past wait_for_dependencies
PastWait(j) ==
    pc[j] \in {"should_skip", "using_color", "skip_done", "spawn", "poll", "sleep",
               "mark_as_done", "set_predicates", "store_result", "exited"}

\* every name of the job's depends_on is registered
DependenciesRegistered(j) ==
    \A i \in 1..Len(Tags(j, "depends_on")) :
        Tags(j, "depends_on")[i] \in DOMAIN name_result

\* every name of the job's depends_on is registered and some has failed
HasFailedDependency(j) ==
    /\ DependenciesRegistered(j)
    /\ \E i \in 1..Len(Tags(j, "depends_on")) :
          name_result[Tags(j, "depends_on")[i]] = False

\* run_commands has built its RunnerResults
Returned == outcome = "returned"

\* C1: a job that lists a name in depends_on evaluates its skip decision and
\* spawns its child only after the name's entry in name_result has left
\* pending: whenever its worker is past wait_for_dependencies, or it has a
\* child, every name of its depends_on is registered and passed or failed.
C1_DependentsWait ==
    \A j \in Jobs :
        (PastWait(j) \/ attempts[j] # <<>>) =>
            \A i \in 1..Len(Tags(j, "depends_on")) :
                /\ Tags(j, "depends_on")[i] \in DOMAIN name_result
                /\ name_result[Tags(j, "depends_on")[i]] # None

\* a dependent job has spawned its child after its dependency passed
C1_Witness ==
    \E j \in Jobs :
        /\ Tags(j, "depends_on") # <<>>
        /\ ChildRunning(j)
        /\ name_result[Tags(j, "depends_on")[1]] = True

\* C2 as stated: a job with a failed dependency never spawns a child and,
\* once run_commands has returned its results, is in RunnerResults.failed.
C2_Original ==
    \A j \in started_commands :
        HasFailedDependency(j) =>
            /\ attempts[j] = <<>>
            /\ Returned => j \in failed

\* every name of the job's depends_on is the name of an earlier command
DependenciesEarlier(j) ==
    \A i \in 1..Len(Tags(j, "depends_on")) :
        \E k \in 1..(j - 1) : JobName(k) = Tags(j, "depends_on")[i]

\* C2 amended: a job with a failed dependency never spawns a child; when its
\* worker has returned, the result recorded for the job is failed; and it is
\* in RunnerResults.failed when it is not a background job, every name of its
\* depends_on is the name of an earlier command and run_commands returned
\* without an interrupt.
C2_FailedDependency ==
    \A j \in Jobs :
        (\E i \in 1..Len(Tags(j, "depends_on")) :
            /\ Tags(j, "depends_on")[i] \in DOMAIN name_result
            /\ name_result[Tags(j, "depends_on")[i]] = False) =>
            /\ attempts[j] = <<>>
            /\ pc[j] \notin {"should_skip", "using_color", "skip_done", "spawn", "poll",
                            "sleep", "mark_as_done", "set_predicates"}
            /\ pc[j] = "store_result" => passed[j] = False
            /\ pc[j] = "exited" => results[j] = False
            /\ (Returned /\ ~interrupt /\ ~JobBackground(j) /\ j \in started_commands
                  /\ DependenciesEarlier(j)) => j \in failed

\* a job that depends on two names, one passed and one failed, was not
\* started and is reported in RunnerResults.failed
C2_Witness ==
    \E j \in Jobs :
        /\ Len(Tags(j, "depends_on")) = 2
        /\ DependenciesRegistered(j)
        /\ name_result[Tags(j, "depends_on")[1]] = True
        /\ name_result[Tags(j, "depends_on")[2]] = False
        /\ Returned
        /\ j \in failed
        /\ message[j] = "NOT STARTED"

\* C3: stop on first failure.  Once a synchronous job (neither named nor
\* background) has the result failed, it is the last command the loop has
\* started: no later command has a Job, a thread, a result entry, a
\* registered name or a child process.
C3_StopOnFirstFailure ==
    \A i \in Jobs :
        (Synchronous(i) /\ i \in DOMAIN results /\ results[i] = False) =>
            /\ idx = i
            /\ \A j \in Jobs : j > i =>
                  /\ pc[j] = "unstarted"
                  /\ j \notin started_commands
                  /\ j \notin DOMAIN results
                  /\ attempts[j] = <<>>
            /\ \A n \in DOMAIN name_result : \E k \in 1..i : JobName(k) = n

\* the run is over, a synchronous job failed and a later command exists
C3_Witness ==
    /\ mainPc = "done"
    /\ \E i \in Jobs :
          /\ Synchronous(i)
          /\ i \in DOMAIN results
          /\ results[i] = False
          /\ i < Len(doc)
          /\ doc[i + 1].valid

\* C4 as stated: a command with a non-empty `set' is never in
\* RunnerResults.failed, whatever its child's exit status.
C4_SetNeverFailed ==
    \A j \in failed : Tags(j, "set") = <<>>

\* C5 as stated, at the step that completes the RunnerResults of a run
\* without interrupt: the started commands are exactly the failed ones, the
\* running ones and those whose result is passed at that moment:
\* |failed| + passed + |running| = started.
C5_Partition ==
    [][(mainPc = "results_running" /\ mainPc' = "kill_all" /\ ~interrupt) =>
          Cardinality(failed') + Cardinality({j \in DOMAIN results' : results'[j] = True})
              + Cardinality(running') = Cardinality(started_commands')]_vars

\* the step is Runner.start for a job whose name is already registered
DuplicateStart == mainPc = "loop" /\ idx' = idx + 1 /\ NameInUse(JobName(idx'))

\* the job has a thread: Runner.start got past synchronous_prepare
Prepared(j) == pc[j] # "unstarted"

\* C6: name registration is injective.  Runner.start for a job whose
\* non-empty name is already in name_result raises in the main thread,
\* leaves name_result as it was and creates no thread and no process; no two
\* jobs with a thread share a name; the empty name is never registered.
C6_InjectiveNames ==
    /\ [][DuplicateStart =>
            /\ outcome' = "raised"
            /\ mainPc' = "kill_all"
            /\ name_result' = name_result
            /\ pc' = pc
            /\ threads' = threads
            /\ attempts' = attempts]_vars
    /\ [](\A i, j \in Jobs :
            (i # j /\ Prepared(i) /\ Prepared(j) /\ JobName(i) # "")
                => JobName(i) # JobName(j))
    /\ []("" \notin DOMAIN name_result)
    /\ [](\A j \in Jobs : (Prepared(j) /\ JobName(j) # "") => JobName(j) \in DOMAIN name_result)

\* the second job of a name was refused while the first one had a child
C6_Witness ==
    /\ outcome = "raised"
    /\ \E i, j \in Jobs :
          /\ i < j
          /\ JobName(i) = JobName(j)
          /\ JobName(i) # ""
          /\ attempts[i] # <<>>
          /\ j \in DOMAIN results
          /\ ~Prepared(j)

\* C7 as stated: when run_commands raises for a configuration error, no
\* child process of the run has been spawned.
C7_NoChildBeforeConfigError ==
    outcome = "raised" => \A j \in Jobs : attempts[j] = <<>>

\* the status of the child of the job's latest attempt
LastStatus(j) == attempts[j][Len(attempts[j])]

LoopOver(j) ==
    /\ attempts[j] # <<>>
    /\ pc[j] \in {"mark_as_done", "set_predicates", "store_result", "exited"}

\* C9: the retry loop.  A job with retries = r has at most r + 1 attempts;
\* only the latest attempt can be running; no attempt follows one that
\* exited zero; and, unless teardown has set the dead flag, a job whose loop
\* is over passed iff one of its attempts exited zero, and failed only after
\* all r + 1 attempts.
C9_RetryLoop ==
    \A j \in Jobs :
        /\ Len(attempts[j]) <= doc[j].retries + 1
        /\ \A a \in 1..(Len(attempts[j]) - 1) : attempts[j][a] \notin {"running", "exit0"}
        /\ Cardinality({p \in procs : p[1] = j}) <= 1
        /\ (LoopOver(j) /\ ~dead) =>
              /\ passed[j] = True <=> \E a \in 1..Len(attempts[j]) : attempts[j][a] = "exit0"
              /\ passed[j] = False => Len(attempts[j]) = doc[j].retries + 1

\* a job failed its first attempt and passed on the retry
C9_Witness ==
    \E j \in Jobs :
        /\ doc[j].retries >= 1
        /\ attempts[j] = <<"exit1", "exit0">>
        /\ pc[j] = "exited"
        /\ results[j] = True
        /\ ~dead

\* the child of the job's latest attempt is killed for output timeout in
\* this step
TimeoutKill(j) ==
    /\ j \in DOMAIN attempts'
    /\ attempts[j] # <<>>
    /\ Len(attempts'[j]) = Len(attempts[j])
    /\ LastStatus(j) = "running"
    /\ attempts'[j][Len(attempts[j])] = "timeout"

C11_PredicateGate ==
    \A s \in Jobs : \A j \in Jobs :
        (/\ s < j
         /\ Synchronous(s)
         /\ Tags(s, "set") # <<>>
         /\ Returned /\ ~interrupt
         /\ Tags(s, "set")[1] \in DOMAIN predicates) =>
            /\ Tags(j, "unless") = Tags(s, "set") =>
                  (attempts[j] # <<>> <=> predicates[Tags(s, "set")[1]] = False)
            /\ Tags(j, "if") = Tags(s, "set") =>
                  (attempts[j] # <<>> <=> predicates[Tags(s, "set")[1]] = True)

\* C12: the post phase follows the main phase however run(commands) returned
\* (all commands done, stopped by a failure, stopped by an interrupt), and
\* only after its teardown.  main() enters the post phase only from a main
\* phase whose run_commands has returned, with _dead set, every worker
\* finished and no child running; and after a main phase that returned it
\* leaves without a post phase only when the file has no post command.
C12_PostAfterMain ==
    /\ [][(phase = "main" /\ phase' = "post") =>
            /\ mainPc = "done" /\ outcome = "returned" /\ dead
            /\ \A j \in Jobs :
                  /\ pc[j] \in {"unstarted", "exited", "raised"}
                  /\ \A a \in 1..Len(attempts[j]) : attempts[j][a] # "running"]_vars
    /\ [][(phase = "main" /\ phase' = "exit" /\ outcome = "returned") =>
            post_commands' = <<>>]_vars
    /\ [](phase = "post" => post_commands # <<>> /\ doc = post_commands)

\* the post command has a child although the main phase was stopped by an
\* interrupt after its job had failed
C12_Witness ==
    /\ phase = "post"
    /\ notice
    /\ failed_command # NoCommand
    /\ \E j \in DOMAIN main_results : main_results[j] = False
    /\ \E j \in Jobs : attempts[j] # <<>>

\* some job of a run with results res and banners msg ended failed: its
\* worker recorded failure after a FAILED banner or after NOT STARTED
FailedIn(res, msg) ==
    \E j \in DOMAIN res : res[j] = False /\ msg[j] \in {"FAILED", "NOT STARTED"}

\* some job of the main phase or of the post phase ended failed
AnyJobFailed == FailedIn(main_results, main_message) \/ FailedIn(results, message)

\* C13: final disposition.  The program exits 0 only if no started job of
\* the main phase or of the post phase ended failed.
C13_FinalDisposition ==
    (phase = "exit" /\ exit_status = "0") => ~AnyJobFailed

\* C14: an interrupt caught during the main phase (the KEYBOARD INTERRUPT
\* notice is printed) makes the program exit with a FAILED message.
C14_InterruptFails ==
    (phase = "exit" /\ notice) =>
        exit_status \in {"FAILED", "FAILED: Failed while running"}

\* C15: the global deadline.  Once the timer has expired the program can
\* always go on to its exit; when it has exited, the exit is FAILED, every
\* worker has finished and no child is running; and no exit leaves the timer
\* armed.
C15_GlobalDeadline ==
    /\ (timer = "fired" /\ phase # "exit") => ENABLED Next
    /\ (timer = "fired" /\ phase = "exit") =>
          /\ exit_status = "FAILED"
          /\ \A j \in Jobs :
                /\ pc[j] \in {"unstarted", "exited", "raised"}
                /\ \A a \in 1..Len(attempts[j]) : attempts[j][a] # "running"
    /\ phase = "exit" => timer # "armed"

\* C16: the synchronous gate.  start() of a job that is neither background
\* nor named returns only when the job's worker has finished; hence while
\* such a job is waiting for its dependencies or running, no later command
\* has been started, and no two such jobs are alive together.
C16_SynchronousGate ==
    /\ [][(/\ mainPc = "start_return"
           /\ mainPc' \in {"loop", "finish"}
           /\ ~JobBackground(idx) /\ JobName(idx) = "") =>
              pc[idx] \in {"exited", "raised"}]_vars
    /\ [](\A i \in Jobs : \A j \in Jobs :
            (i < j /\ ~JobBackground(i) /\ JobName(i) = "" /\ pc[j] # "unstarted") =>
                pc[i] \in {"exited", "raised"})
    /\ [](\A i \in Jobs : \A j \in Jobs :
            (/\ i # j
             /\ ~JobBackground(i) /\ JobName(i) = ""
             /\ ~JobBackground(j) /\ JobName(j) = "") =>
                ~(pc[i] \notin {"unstarted", "exited", "raised"}
                    /\ pc[j] \notin {"unstarted", "exited", "raised"}))

\* a synchronous job ran its child and finished, and the next command, also
\* synchronous, is running its child
C16_Witness ==
    \E i \in Jobs : \E j \in Jobs :
        /\ i < j
        /\ ~JobBackground(i) /\ JobName(i) = ""
        /\ ~JobBackground(j) /\ JobName(j) = ""
        /\ pc[i] = "exited" /\ attempts[i] # <<>>
        /\ ChildRunning(j)

\* ---------------------------------------------------------- parser claims
\* generate_commands has returned its list
Parsed == parse_status = "list"

\* the document is one command, not a sequence and not a foreach
OneCommand == Len(commands) = 1 /\ commands[1].kind = "command"

\* the command tuple built from the one command of the document
TheCommand == Command(commands[1].value, commands[1].features)

\* C17: expanding a command whose text contains no series yields exactly one
\* command, equal to the input command: the same text and the same features,
\* whatever the features hold.
C17_NoSeriesIdentity ==
    (Parsed /\ OneCommand /\ scanString(TheCommand.command) = {})
        => generated = <<TheCommand>>

\* a command without series whose `name' feature holds a series was expanded
C17_Witness ==
    /\ Parsed /\ OneCommand
    /\ scanString(TheCommand.command) = {}
    /\ TheCommand.command # <<>>
    /\ "name" \in DOMAIN commands[1].features
    /\ scanString(commands[1].features["name"].text) # {}
    /\ Len(generated) = 1

\* the sequence that begins with foreach: the document, or the one nested
\* sequence it holds
ForeachSequence ==
    IF commands # <<>> /\ commands[1].kind = "sequence" THEN commands[1].seq ELSE commands

\* the document begins with `foreach: series' (at top level or nested)
BeginsWithForeach == ForeachSequence # <<>> /\ ForeachSequence[1].kind = "foreach"

\* a sequence with the item at `index' of the series written where the
\* commands of the sequence name the series
RECURSIVE Bind(_, _, _)
Bind(sequence, series, index) ==
    [k \in 1..Len(sequence) |->
        IF sequence[k].kind = "command"
          THEN CommandItem(ExpandString(sequence[k].value, series, index),
                           expand_value(sequence[k].features, series, index))
        ELSE IF sequence[k].kind = "sequence"
          THEN SequenceItem(Bind(sequence[k].seq, series, index))
          ELSE sequence[k]]

\* the rest of the foreach sequence for the item at `index' of its series
Rest(index) == Bind(Tail(ForeachSequence), ForeachSequence[1].series, index)

\* C18: a sequence whose first element is `foreach: series' emits the
\* expansion of the rest of the sequence for the first item, then for the
\* second item, and so on: the list generated is the lists generated from
\* the rest for item 1, item 2, ... one after the other, each in source order
\* with the further series of its commands expanded.
C18_ForeachInOrder ==
    (Parsed /\ BeginsWithForeach)
        => generated = Chain([index \in 1..Len(ForeachSequence[1].series.items) |->
                                 generate_commands(Rest(index))])

\* a foreach over two items was expanded, the rest holds a command that names
\* the series and a further series, and the two items gave different commands
C18_Witness ==
    /\ Parsed /\ BeginsWithForeach
    /\ Len(ForeachSequence[1].series.items) = 2
    /\ Len(generated) = 4
    /\ generate_commands(Rest(1)) # generate_commands(Rest(2))
    /\ Len(generate_commands(Rest(1))) = 2

\* a foreach inside a foreach was expanded: four commands, those of the
\* first item of the outer series before those of its second item
C18_NestedWitness ==
    /\ Parsed /\ BeginsWithForeach
    /\ Len(ForeachSequence) = 2 /\ ForeachSequence[2].kind = "sequence"
    /\ Len(generated) = 4
    /\ generated[1] = generated[2] /\ generated[3] = generated[4]
    /\ generated[2] # generated[3]

\* the text of the one command of the document
TheText == TheCommand.command

\* the series of the text have pairwise distinct identities
DistinctIdentities ==
    \A p, q \in scanString(TheText) : p # q => ~SeriesEq(TheText[p], TheText[q])

\* the number of combinations of the items of the series at the sites S
RECURSIVE Combinations(_)
Combinations(S) ==
    IF S = {} THEN 1
    ELSE LET p == CHOOSE q \in S : TRUE
         IN  Len(TheText[p].items) * Combinations(S \ {p})

\* the sites to the right of position p
RightOf(p) == {q \in scanString(TheText) : q > p}

\* the index of the item of the series at site p in the n-th combination, when
\* the leftmost series varies slowest
Digit(p, n) ==
    (((n - 1) \div Combinations(RightOf(p))) % Len(TheText[p].items)) + 1

\* the text of the n-th combination
Combination(n) ==
    [k \in 1..Len(TheText) |->
        IF k \in scanString(TheText)
          THEN Lit(TheText[k].items[Digit(k, n)])
          ELSE TheText[k]]

\* C19: a command whose series have pairwise distinct identities expands to
\* exactly the cartesian product of their items: as many commands as there
\* are combinations, the n-th command being the n-th combination in the order
\* in which the leftmost series varies slowest, and (the items of a series
\* being different from each other) no command twice.
C19_CartesianProduct ==
    (Parsed /\ OneCommand /\ DistinctIdentities)
        => /\ Len(generated) = Combinations(scanString(TheText))
           /\ \A n \in 1..Len(generated) : generated[n].command = Combination(n)
           /\ \A m, n \in 1..Len(generated) : m # n => generated[m] # generated[n]

\* a command with two series of distinct identities and two items each was
\* expanded to four commands
C19_Witness ==
    /\ Parsed /\ OneCommand /\ DistinctIdentities
    /\ \E p, q \in scanString(TheText) :
          p < q /\ Len(TheText[p].items) = 2 /\ Len(TheText[q].items) = 2
    /\ Len(generated) = 4

\* the first site of the text with the identity of the series at site p
Target(p) ==
    CHOOSE q \in scanString(TheText) :
        /\ SeriesEq(TheText[q], TheText[p])
        /\ \A r \in scanString(TheText) : SeriesEq(TheText[r], TheText[p]) => q <= r

\* the items a site of the text is substituted from: its own when it is
\* labeled, else those of the first site of its identity
ItemsAt(p) == IF labeled(TheText[p]) THEN TheText[p].items ELSE TheText[Target(p)].items

\* the sites of the string-valued features with the identity of the site p
FeatureSites(p) ==
    {kq \in {<<key, q>> : key \in DOMAIN TheCommand.features, q \in 1..MaxLength} :
        /\ TheCommand.features[kq[1]].str
        /\ kq[2] \in scanString(TheCommand.features[kq[1]].text)
        /\ SeriesEq(TheCommand.features[kq[1]].text[kq[2]], TheText[p])}

\* the items a site of a feature is substituted from
FeatureItemsAt(kq, p) ==
    IF labeled(TheCommand.features[kq[1]].text[kq[2]])
      THEN TheCommand.features[kq[1]].text[kq[2]].items
      ELSE TheText[Target(p)].items

\* every site of the text has the identity of its first site
OneIdentity ==
    /\ scanString(TheText) # {}
    /\ \A p \in scanString(TheText) : SeriesEq(TheText[p], FirstSite(TheText))

\* C20: co-expansion.  In every command generated from one command, the
\* sites of equal identity, in the text and in the string-valued features,
\* hold the items at one and the same index, never the item at one index in
\* one site and the item at another index in the other; and a text whose
\* sites all have one identity yields as many commands as that series has
\* items.
C20_CoExpansion ==
    (Parsed /\ OneCommand)
        => /\ \A n \in 1..Len(generated) : \A p \in scanString(TheText) :
                 \E index \in 1..Len(ItemsAt(p)) :
                     /\ \A q \in scanString(TheText) :
                           SeriesEq(TheText[q], TheText[p])
                               => generated[n].command[q] = Lit(ItemsAt(q)[index])
                     /\ \A kq \in FeatureSites(p) :
                           generated[n].features[kq[1]].text[kq[2]]
                               = Lit(FeatureItemsAt(kq, p)[index])
           /\ OneIdentity => Len(generated) = Len(FirstSite(TheText).items)

\* a series of two items used twice in the text was expanded to two commands
C20_Witness ==
    /\ Parsed /\ OneCommand /\ OneIdentity
    /\ Cardinality(scanString(TheText)) = 2
    /\ Len(generated) = 2
    /\ generated[1] # generated[2]

\* a labeled series of two items and a reference to it by its label alone were
\* expanded to two commands
C20_ReferenceWitness ==
    /\ Parsed /\ OneCommand /\ OneIdentity
    /\ \E p, q \in scanString(TheText) : labeled(TheText[p]) /\ ~labeled(TheText[q])
    /\ Len(generated) = 2

\* a series in the text and the same series in the `name' feature were
\* expanded together
C20_FeatureWitness ==
    /\ Parsed /\ OneCommand
    /\ \E p \in scanString(TheText) : FeatureSites(p) # {}
    /\ Len(generated) = 2
    /\ generated[1].features # generated[2].features

\* generate_commands has been called on the document
ParseDone == parse_status # "input"

\* two labeled series of the text share a label and differ in their number
\* of items, the first of the two being the one at p
LabelMismatch(p, q) ==
    /\ p \in scanString(TheText) /\ q \in scanString(TheText) /\ p < q
    /\ labeled(TheText[p]) /\ labeled(TheText[q])
    /\ TheText[p].label = TheText[q].label
    /\ Len(TheText[p].items) # Len(TheText[q].items)

\* C21: when two labeled series of one command share a label but differ in
\* their number of items, generate_commands fails with the 1-1 assertion and
\* no command is emitted for the entry, whether the longer series comes first
\* or second in the text.
C21_OneToOneAssertion ==
    (ParseDone /\ OneCommand /\ \E p, q \in 1..Len(TheText) : LabelMismatch(p, q))
        => parse_status = "AssertionError" /\ generated = <<>>

\* the expansion failed on a text whose shorter series comes first
C21_Witness ==
    /\ parse_status = "AssertionError" /\ OneCommand
    /\ \E p, q \in 1..Len(TheText) :
          LabelMismatch(p, q) /\ Len(TheText[p].items) < Len(TheText[q].items)

\* the expansion failed on a text whose longer series comes first
C21_LongerFirstWitness ==
    /\ parse_status = "AssertionError" /\ OneCommand
    /\ \E p, q \in 1..Len(TheText) :
          LabelMismatch(p, q) /\ Len(TheText[p].items) > Len(TheText[q].items)

\* a sequence nested in `sequence' begins with a foreach whose series has the
\* identity of a series of `bound', the series of the enclosing foreachs
RECURSIVE Rebinds(_, _)
Rebinds(sequence, bound) ==
    IF sequence = <<>> THEN FALSE
    ELSE IF sequence[1].kind = "foreach"
      THEN \/ \E s \in bound : SeriesEq(sequence[1].series, s)
           \/ \E k \in 2..Len(sequence) :
                 /\ sequence[k].kind = "sequence"
                 /\ Rebinds(sequence[k].seq, bound \cup {sequence[1].series})
      ELSE \E k \in 1..Len(sequence) :
              sequence[k].kind = "sequence" /\ Rebinds(sequence[k].seq, bound)

\* the depth of the foreach that is nested deepest in the sequence
RECURSIVE Depth(_)
Depth(sequence) ==
    IF sequence = <<>> \/ sequence[1].kind # "foreach" THEN 0
    ELSE IF Len(sequence) >= 2 /\ sequence[2].kind = "sequence"
      THEN 1 + Depth(sequence[2].seq)
      ELSE 1

\* C22: a nested sequence whose foreach introduces a series with the identity
\* of a series bound by an enclosing foreach, the nearest one or one further
\* out, makes generate_commands fail with an assertion: no list of commands
\* is returned.
C22_NoRebinding ==
    (ParseDone /\ Rebinds(commands, {}))
        => parse_status = "AssertionError" /\ generated = <<>>

\* the expansion failed on a foreach nested three deep whose series is the
\* series of the outermost foreach and not that of the one around it
C22_Witness ==
    /\ parse_status = "AssertionError"
    /\ Depth(ForeachSequence) = 3
    /\ SeriesEq(ForeachSequence[2].seq[2].seq[1].series, ForeachSequence[1].series)
    /\ ~SeriesEq(ForeachSequence[2].seq[1].series, ForeachSequence[1].series)
    /\ ~SeriesEq(ForeachSequence[2].seq[2].seq[1].series, ForeachSequence[2].seq[1].series)

\* the text of the command with the items at index i in its sites
IthText(i) ==
    [k \in 1..Len(TheText) |->
        IF k \in scanString(TheText) THEN Lit(ItemsAt(k)[i]) ELSE TheText[k]]

\* a string of a feature with the items at index i in the sites that have the
\* identity of the series of the text, the other sites left as they are
IthString(value, i) ==
    [q \in 1..Len(value) |->
        IF q \in scanString(value) /\ SeriesEq(value[q], FirstSite(TheText))
          THEN Lit((IF labeled(value[q]) THEN value[q].items
                                         ELSE FirstSite(TheText).items)[i])
          ELSE value[q]]

\* the features of the command with the items at index i
IthFeatures(i) ==
    [key \in DOMAIN TheCommand.features |->
        IF TheCommand.features[key].str
          THEN StrValue(IthString(TheCommand.features[key].text, i))
          ELSE TheCommand.features[key]]

\* C23: the series of the string-valued features are substituted together
\* with the series of the same identity of the command text, at the same
\* index: for a text with one series, the i-th command generated has the
\* text with the i-th item and every string-valued feature with the i-th
\* item of its series of that identity.
C23_FeaturesCoExpand ==
    (Parsed /\ OneCommand /\ OneIdentity)
        => /\ Len(generated) = Len(FirstSite(TheText).items)
           /\ \A i \in 1..Len(generated) :
                 generated[i] = [command |-> IthText(i), features |-> IthFeatures(i)]

\* a command with a series of two items in its text and the same series in
\* its `name' feature was expanded: the first command has the first name,
\* the second the second
C23_Witness ==
    /\ Parsed /\ OneCommand /\ OneIdentity
    /\ "name" \in DOMAIN TheCommand.features
    /\ scanString(TheCommand.features["name"].text) = {1}
    /\ SeriesEq(TheCommand.features["name"].text[1], FirstSite(TheText))
    /\ Len(generated) = 2
    /\ generated[1].features["name"].text
          = <<Lit(TheCommand.features["name"].text[1].items[1])>>
    /\ generated[2].features["name"].text
          = <<Lit(TheCommand.features["name"].text[1].items[2])>>

\* ------------------------------------------------------- scheduler claims
\* the worker of job j has returned from Job.run without starting its
\* command, because a dependency failed
NotStarted(j) ==
    /\ pc[j] \in {"store_result", "exited"}
    /\ message[j] = "NOT STARTED"

\* C24: when a named job is not started because one of its dependencies
\* failed, its own name is marked done-failed in name_result (so that the
\* jobs that depend on that name are woken and end failed).
C24_NotStartedMarksName ==
    \A j \in Jobs :
        (NotStarted(j) /\ JobName(j) # "") => name_result[JobName(j)] = False

\* C25: for a job that is named or background, start() returns without
\* waiting for the worker, and the result it returns is pending at that
\* moment in every interleaving: the stop on first failure is never taken on
\* the return of start() for such a job.
C25_AsynchronousStartPending ==
    [][(/\ mainPc = "start_return"
        /\ mainPc' \in {"loop", "finish"}
        /\ (JobBackground(idx) \/ JobName(idx) # ""))
           => (results[idx] = None /\ mainPc' = "loop")]_vars

\* job i is a setter whose name the job j lists in depends_on
DependsOnSetter(j, i) ==
    /\ Tags(i, "set") # <<>>
    /\ JobName(i) # ""
    /\ \E k \in 1..Len(Tags(j, "depends_on")) : Tags(j, "depends_on")[k] = JobName(i)

\* C26: predicate causality.  A job that lists the name of a setter in
\* depends_on evaluates its if/unless only after the predicates of the
\* setter's `set' are stored: in the step in which its worker evaluates
\* should_skip, the worker of the setter is past set_predicates.
C26_PredicateCausality ==
    [][\A j \in Jobs : \A i \in Jobs :
          (/\ DependsOnSetter(j, i)
           /\ pc[j] = "should_skip"
           /\ j \in DOMAIN pc' /\ pc'[j] \in {"using_color", "raised"})
             => pc[i] \in {"store_result", "exited"}]_vars

\* every name the job waits for has passed or failed
DependenciesTerminal(j) ==
    \A k \in 1..Len(Tags(j, "depends_on")) :
        /\ Tags(j, "depends_on")[k] \in DOMAIN name_result
        /\ name_result[Tags(j, "depends_on")[k]] # None

\* C27: no lost wake-up.  A worker is never blocked in wait() of
\* wait_for_dependencies while every name it waits for is terminal: the
\* notification of the last name it waited for cannot have passed before it
\* began to wait, so it needs no later job to complete in order to return.
C27_NoLostWakeup ==
    \A j \in Jobs : pc[j] = "waiting" => ~DependenciesTerminal(j)

\* C28: a fault raised inside a worker (if and unless both given, a predicate
\* nobody has set, a depends_on name that is not registered) is reported as a
\* failure of the job: once the worker has ended on the fault, the job's
\* result is failed, not pending, and its name, if it has one, is marked
\* done.
C28_WorkerFaultReported ==
    \A j \in Jobs :
        pc[j] = "raised"
            => /\ results[j] = False
               /\ JobName(j) # "" => name_result[JobName(j)] # None

\* the postcondition of teardown: no worker thread of the run is alive, the
\* live-process set is empty and no child is running
TornDown ==
    /\ \A j \in threads.normal \cup threads.background : ~IsAlive(j)
    /\ procs = {}
    /\ \A j \in Jobs : ~ChildRunning(j)

\* C29: the teardown postcondition.  Whenever run_commands has returned or
\* raised (normal end, stop on failure, interrupt, configuration assertion,
\* SystemExit of the SIGTERM handler), every worker thread of the run has
\* exited and the live-process set is empty, so that no child of the run is
\* left alive.
C29_TeardownPostcondition ==
    (mainPc = "done" /\ phase # "exit") => TornDown

\* kill_all has been called and has not returned
InKillAll == mainPc \in {"kill_all", "kill_loop"}

\* a step of kill_all, of a worker, or the exit of a child
TeardownStep ==
    \/ KillAll
    \/ KillProcs
    \/ KillReturn
    \/ \E j \in Jobs :
          \/ WaitForDependencies(j) \/ ConditionWait(j) \/ ShouldSkip(j)
          \/ UsingColor(j) \/ Spawn(j) \/ PollLoop(j) \/ Reap(j) \/ RetrySleep(j)
          \/ SkipDone(j) \/ MarkAsDone(j) \/ SetPredicates(j) \/ StoreResult(j)
          \/ ChildExit(j)

\* C30: kill_all terminates.  In every state in which kill_all has been
\* called and has not returned, it can return, or it can kill a child, or a
\* child or a worker can take a step: kill_all is never left looking at a
\* worker that will not move again, be it blocked on its dependencies or
\* asleep between retries.
C30_KillAllTerminates == InKillAll => ENABLED TeardownStep

\* C31: once the dead flag is set, a worker that is in its retry loop, asleep
\* in the retry interval included, does not spawn another attempt: while
\* dead is set no job that has had an attempt gets a further one.
C31_NoAttemptAfterDead ==
    [][\A j \in Jobs :
          (dead /\ j \in DOMAIN attempts' /\ attempts[j] # <<>>)
             => Len(attempts'[j]) <= Len(attempts[j])]_vars

\* every colour of the pool is in use
Exhausted == \A i \in 1..Len(colors) : colors[i].n > 0

\* C32: colour pool exhaustion.  When every colour is in use, a worker that
\* enters using_color gets the colour leased least recently, the first entry
\* of _colors, whose count goes up by one and which moves to the end, and the
\* worker goes on to run its job.
C32_ExhaustedPoolLeasesOldest ==
    [][\A j \in Jobs :
          (Exhausted /\ j \in DOMAIN pc' /\ pc[j] = "using_color"
             /\ pc'[j] # "using_color")
            => /\ color'[j] = colors[1].c
               /\ colors' = Lease(1)
               /\ pc'[j] \in {"skip_done", "spawn"}]_vars

\* the worker of job j is inside `with self.using_color()'
Holds(j) == pc[j] \in {"skip_done", "spawn", "poll", "sleep"}

Holders == {j \in Jobs : Holds(j)}

\* position of colour c in _colors
PositionOf(c) == CHOOSE i \in 1..Len(colors) : colors[i].c = c

\* _colors without its entry at position i
Without(cs, i) == [k \in 1..(Len(cs) - 1) |-> IF k < i THEN cs[k] ELSE cs[k + 1]]

\* the worker of job j takes a colour in this step, while one is free
FreeLease(j) ==
    /\ ~Exhausted /\ j \in DOMAIN pc'
    /\ pc[j] = "using_color" /\ pc'[j] # "using_color"

\* the colour job j has taken was free, no free colour stood before it in
\* _colors, and it has moved to the end of _colors with count 1, the others
\* keeping their order
OldestFreeLeased(j) ==
    LET i == PositionOf(color'[j]) IN
        /\ colors[i].n = 0
        /\ \A k \in 1..(i - 1) : colors[k].n > 0
        /\ colors'[Len(colors)] = [c |-> color'[j], n |-> 1]
        /\ Without(colors', Len(colors)) = Without(colors, i)

\* no two workers inside using_color have the same colour
DistinctColors == \A j, k \in Holders : j # k => color[j] # color[k]

\* C33: fairness of the colour lease.  _colors starts in palette order and a
\* lease moves its colour to the end, so _colors is ordered by how long ago a
\* colour was leased; while a colour is free, a lease takes the first free
\* colour of _colors, the one leased least recently.  No two workers that
\* hold a colour at the same time hold the same one.
C33_LeaseOldestFree ==
    /\ [][\A j \in Jobs : FreeLease(j) => OldestFreeLeased(j)]_vars
    /\ []DistinctColors

\* six workers hold a colour at once, after another one has given its back
C33_Witness ==
    /\ Cardinality(Holders) = Len(COLORS)
    /\ \E j \in Jobs : message[j] = "Skipping"

\* each colour's count is the number of workers inside using_color with it
CountsAreHolders ==
    \A i \in 1..Len(colors) :
        /\ colors[i].n >= 0
        /\ colors[i].n = Cardinality({j \in Holders : color[j] = colors[i].c})

\* count of colour c in _colors
CountOf(cs, c) == cs[CHOOSE i \in 1..Len(cs) : cs[i].c = c].n

\* a step of the workers: inside using_color the colour of a job does not
\* change
LeaseScoped ==
    \A j \in Holders :
        pc'[j] \in {"skip_done", "spawn", "poll", "sleep"} => color'[j] = color[j]

\* C34: a colour lease lasts as long as one call of Runner.run.  In every
\* state the count of each colour is the number of workers inside
\* using_color with that colour, never negative; every attempt of a job's
\* retry loop is made with the colour leased at entry; the count being the
\* number of holders before and after every step, it goes down by one when a
\* worker leaves using_color and at no other step.
\* (Until the interpreter exits: a worker still running then is abandoned
\* where it is.)
C34_LeaseScopedToRun ==
    /\ [](phase # "exit" => CountsAreHolders)
    /\ [][(phase' # "exit" /\ DOMAIN pc' = DOMAIN pc) => LeaseScoped]_vars

\* a job has left using_color after a retry loop of two attempts and the
\* count of its colour is back to 0
C34_Witness ==
    /\ phase = "main"
    /\ \E j \in Jobs :
          /\ Len(attempts[j]) = 2 /\ ~Holds(j) /\ color[j] # None
          /\ CountOf(colors, color[j]) = 0

\* what holds of a job whose worker found should_skip true
SkippedAsPassed(j) ==
    /\ attempts[j] = <<>>
    /\ passed[j] # False /\ results[j] # False /\ j \notin failed
    /\ pc[j] = "exited"
         => /\ results[j] = True
            /\ JobName(j) # "" => name_result[JobName(j)] = True

\* the worker of a skipped job j assigns its `set' predicates
SkippedSets(j) ==
    /\ j \in DOMAIN pc' /\ skip[j]
    /\ pc[j] = "set_predicates" /\ pc'[j] = "store_result"

\* C35: a job whose worker found should_skip true spawns no child and counts
\* as passed: Runner.run returns True for it, its result is True, its name
\* is marked done with True, it is never in the failed list, and the
\* predicates of its `set' are assigned True.
C35_SkippedIsPassed ==
    /\ [](\A j \in Jobs : skip[j] => SkippedAsPassed(j))
    /\ [][\A j \in Jobs :
            SkippedSets(j) => \A p \in Range(Tags(j, "set")) : predicates'[p] = True]_vars

\* a skipped job with a name and a `set' has returned, its predicate is true
\* and the job that depends on it has started a child
C35_Witness ==
    \E j, k \in Jobs :
        /\ skip[j] /\ pc[j] = "exited" /\ JobName(j) # ""
        /\ \A p \in Range(Tags(j, "set")) : p \in DOMAIN predicates /\ predicates[p] = True
        /\ Tags(j, "set") # <<>>
        /\ Tags(k, "depends_on") = <<JobName(j)>> /\ attempts[k] # <<>>

\* main() goes on after run(commands) has returned its RunnerResults
MainResultsIn ==
    /\ phase = "main" /\ phase' \in {"post", "exit"} /\ outcome = "returned"

\* the report made from the RunnerResults (failed, running, interrupt)
ReportFromResults ==
    IF failed # {}
      THEN failed_command' \in failed /\ \A j \in failed : failed_command' <= j
    ELSE IF interrupt /\ running # {}
      THEN failed_command' \in running /\ \A j \in running : j <= failed_command'
    ELSE failed_command' = NoCommand

LoggedAttempts ==
    {x \in Jobs \X (1..(MaxRetries + 1)) : x[2] <= Len(log_paths[x[1]])}

\* C37: the log file names are unique.  In every interleaving of the
\* workers, no two attempts, of one job or of two jobs, named or not, are
\* given the same path `<command_name>_<attempt>'.
C37_LogPathsUnique ==
    \A x, y \in LoggedAttempts :
        x # y => log_paths[x[1]][x[2]] # log_paths[y[1]][y[2]]

\* a result that is set is not set again: no step changes a terminal result
\* of a name, back to pending or to the other value
TerminalIsFinal ==
    \A n \in DOMAIN name_result :
        (n \in DOMAIN name_result' /\ name_result[n] # None)
            => name_result'[n] = name_result[n]

\* the worker of every named job that has returned has set the result of
\* the name
FinishedIsTerminal ==
    \A j \in Jobs :
        (JobName(j) # "" /\ pc[j] = "exited") => name_result[JobName(j)] # None

\* C38: the result of a registered name goes exactly once from pending to a
\* terminal value: it is pending from register_name until the job's worker
\* finishes, it is True or False from then on, and it never changes again.
C38_ResultSetExactlyOnce ==
    /\ []FinishedIsTerminal
    /\ [][TerminalIsFinal]_vars

\* what holds of the changes alone: a terminal result stays
ResultSetAtMostOnce == [][TerminalIsFinal]_vars

\* the interval a command declares, or the default of the run when it
\* declares none
DeclaredOrDefault(interval, default) ==
    IF interval = Absent THEN default ELSE interval

\* the worker of job j sleeps between two attempts in this step
Sleeps(j) == j \in DOMAIN slept' /\ Len(slept'[j]) = Len(slept[j]) + 1

\* C39: the wait between two attempts of a command that declares no
\* `interval' is the retry interval the run was configured with
\* (--retry_interval, the retry_interval argument of run_commands); a
\* declared `interval' is the wait instead.
C39_RetryIntervalDefault ==
    [][\A j \in Jobs :
          Sleeps(j) => slept'[j][Len(slept'[j])]
                          = DeclaredOrDefault(doc[j].interval, retry_interval)]_vars

\* a step of the main thread inside run_commands
MainStep ==
    \/ LoopEnd \/ ConfigError \/ Start \/ StartReturn \/ Finish
    \/ ResultsFailed \/ ResultsRunning \/ KillAll \/ KillProcs \/ KillReturn

\* a step of a worker, or the exit of a child
WorkerStep ==
    \E j \in Jobs :
        \/ WaitForDependencies(j) \/ ConditionWait(j) \/ ShouldSkip(j)
        \/ UsingColor(j) \/ Spawn(j) \/ PollLoop(j) \/ Reap(j) \/ RetrySleep(j)
        \/ SkipDone(j) \/ MarkAsDone(j) \/ SetPredicates(j) \/ StoreResult(j)
        \/ ChildExit(j)

\* run_commands has been called and has not returned
InRunCommands == phase \in {"main", "post"} /\ mainPc # "done"

\* C40: run_commands terminates.  For a document in which every depends_on
\* names an earlier command, as long as run_commands has not returned, the
\* main thread can take a step, or a worker can, or a child can exit: with
\* fair scheduling and children that exit, the loop, finish() and kill_all()
\* complete, and the main thread is never left joined on a worker that
\* waits forever, whatever jobs fail, are skipped or are not started.
C40_RunTerminates ==
    (InRunCommands /\ \A j \in Jobs : DependenciesEarlier(j))
        => ENABLED (MainStep \/ WorkerStep)

====
